---------------------------- MODULE Spec2Model ----------------------------
(***************************************************************************)
(* Verification model of the football-501 scraper: the Rate Gate           *)
(* (RateLimiter), the worker-pool harvesters, the run drivers with their   *)
(* Job ledger and per-player scrape logs, the retry driver and the season  *)
(* store.  Each part has its own specification over the shared variables;  *)
(* a part's actions leave the other parts' variables unchanged.            *)
(***************************************************************************)
EXTENDS Integers, Sequences, FiniteSets, TLC

(***************************************************************************)
(* Bounds of the model.                                                    *)
(***************************************************************************)
NumWorkers == 2      \* max_workers of a scraper (threads of the pool)
MaxCalls == 3        \* jobs handed to the pool in the Rate Gate model
MaxWait == 2         \* wait_time ranges over 1..MaxWait
MaxTime == 5         \* the clock stops advancing at MaxWait + MaxTime

NumEntities == 2     \* entities (players) of the pool model
MaxIds == 2          \* longest list handed to scrape_players_parallel
MaxRows == 1         \* most season rows one fetched page yields
MaxItems == 2        \* most players or questions one operation processes
NumPlayers == 2      \* players with scrape logs when the retry driver runs
MaxLogRows == 2      \* most scrape-log rows earlier runs have left
MaxAttempts == 2     \* largest max_attempts passed to retry_failed_players
MaxInvocations == 2  \* most invocations of retry_failed_players
MaxUpserts == 3      \* most season upserts in a sequence
MaxCount == 1        \* largest counter value of a season record
LowScore == 0        \* least score handed to a classifier
HighScore == 200     \* largest score handed to a classifier
MaxAnswers == 3      \* most answers handed to validate_answers
MaxRecords == 2      \* most season records in the store at a recompute
MaxRuns == 2         \* most recomputes of the question
MinScore == 15       \* the minimum score of a question that has one
RecursionLimit == 3  \* the deepest stack of calls the interpreter allows
MaxSyncCalls == 3    \* most calls of insert_answers_batch and update_answers
BurstHorizon == 6    \* the clock of the burst harvester stops here

Workers == 1..NumWorkers
NoWorker == 0

VARIABLES
    \* ---- Rate Gate model (RateLimiter, BurstParallelScraper) ----
    scraper,            \* which harvester class runs
    wait_time,          \* RateLimiter.wait_time / scraper.wait_time
    now,                \* time.time()
    last_request_time,  \* RateLimiter.last_request_time
    lock,               \* RateLimiter.lock: its holder, or NoWorker
    permits,            \* BurstParallelScraper.semaphore: free permits
    pending,            \* jobs submitted to the executor, not yet started
    wpc,                \* each worker thread's position
    current_time,       \* local of wait(): the clock value read
    sleep_time,         \* local of wait(): the sleep requested
    gated,              \* history: the worker passed the gate for its job
    hist,               \* history of the gate: see HistInit
    \* ---- worker pool model (scrape_players_parallel) ----
    harvester,          \* ParallelPlayerScraper or PlayerScraperV3
    player_ids,         \* the argument: the list of players to scrape
    force_rescrape,     \* the argument
    player,             \* the players table: per entity, its row
    jobs,               \* valid_jobs / future_to_player: one record per future
    overall_stats,      \* the counters the call returns
    pool_pc,            \* position of the calling thread
    \* ---- run drivers, Job ledger and scrape logs ----
    op,                 \* the job-opening operation that runs
    use_parallel,       \* PremierLeagueScraper.use_parallel
    n_items,            \* players (questions) the operation finds to process
    ledger,             \* scrape_jobs: the rows, in creation order
    logs,               \* player_scrape_logs: the rows, in creation order
    run_pc,             \* position of the operation
    idx,                \* items the loop has dealt with
    actual,             \* history: what really happened to each item
    run_stats,          \* the counters of the operation
    ended,              \* "no", or how the operation ended
    \* ---- retry driver ----
    max_attempts,       \* retry_failed_players: max_attempts
    retry_parallel,     \* retry_failed_players: use_parallel of the invocation
    player_ids_to_retry,\* the list the invocation retries
    retry_pc,           \* position of retry_failed_players
    retry_idx,          \* players the sequential retry has dealt with
    invocations,        \* invocations of retry_failed_players so far
    first_count,        \* history: attempt_count of each player at the start
    resubmitted,        \* history: fetches the retry made for each player
    beyond,             \* history: a player was fetched at attempt_count >= M
    \* ---- season store ----
    crud,               \* the store in use: crud_v2 or crud_v3
    player_career_stats,\* crud_v2: the rows of table player_career_stats
    players,            \* crud_v3: the players that have a row
    career_stats,       \* crud_v3: each player's JSONB list career_stats
    upserts,            \* season upserts called so far
    latest,             \* history: the most recent upsert of each key
    \* ---- darts classifiers ----
    classifier,         \* the code that classifies the score
    score,              \* the score to classify
    flags,              \* the Answer flags written, once classified
    \* ---- DataTransformer.validate_answers ----
    validate_input,     \* validate_answers: answers
    validate_idx,       \* answers the loop has dealt with
    validate_stats,     \* validate_answers: stats
    \* ---- recomputing the Answer Set of a question ----
    populator,          \* the code that recomputes
    question,           \* the question: aggregation, team_id, min_score
    teams,              \* the ids of the rows of table teams
    season_stats,       \* the season records, in storage order
    table,              \* the answers stored for the question
    raw_stats,          \* the records the populator queried
    answers,            \* the answers the populator computed
    ans_pc,             \* position of the recompute
    runs,               \* recomputes started so far
    prior,              \* history: the answers when the recompute started
    first_result,       \* history: the answers the first recompute left
    player_names,       \* table players: the name of each player
    filter_deleted,     \* history: the team the question filtered on is gone
    \* ---- concurrent sessions of add_player_season_stats ----
    session_args,       \* each session's call: the key and the counters
    session_pc,         \* each session's position
    session_stats,      \* each session's local current_stats
    \* ---- BurstParallelScraper.scrape_players_burst ----
    max_workers,        \* BurstParallelScraper.max_workers
    fresh,              \* the players of the batch scraped within 30 days
    request_times,      \* BurstParallelScraper.request_times
    burst_jobs,         \* each future's position
    burst_pc,           \* position of the calling thread
    burst_wake,         \* _enforce_cooldown: when its sleep may end
    burst_hist,         \* history of the batch: see BurstHistInit
    \* ---- DatabaseManager.update_answers ----
    answer_rows,        \* table answers: the rows, in creation order
    sync_call,          \* the call made last, with its arguments
    sync_old,           \* history: the rows when that call started
    sync_result,        \* what update_answers returned
    sync_calls          \* calls made so far

gateVars == <<scraper, wait_time, now, last_request_time, lock, permits,
              pending, wpc, current_time, sleep_time, gated, hist>>

poolVars == <<harvester, player_ids, force_rescrape, player, jobs,
              overall_stats, pool_pc>>

runVars == <<op, use_parallel, n_items, ledger, run_pc, idx, actual,
             run_stats, ended>>

logVars == <<logs>>

retryVars == <<max_attempts, retry_parallel, player_ids_to_retry, retry_pc,
               retry_idx, invocations, first_count, resubmitted, beyond>>

storeVars == <<crud, player_career_stats, players, career_stats, upserts,
               latest>>

dartsVars == <<classifier, score, flags>>

validateVars == <<validate_input, validate_idx, validate_stats>>

answerVars == <<populator, question, teams, season_stats, table, raw_stats, answers,
                ans_pc, runs, prior, first_result, player_names,
                filter_deleted>>

sessionVars == <<session_args, session_pc, session_stats>>

burstVars == <<max_workers, fresh, request_times, burst_jobs, burst_pc,
               burst_wake, burst_hist>>

syncVars == <<answer_rows, sync_call, sync_old, sync_result, sync_calls>>

scoringVars == <<dartsVars, validateVars, answerVars, syncVars>>

vars == <<gateVars, poolVars, runVars, logVars, retryVars, storeVars,
          sessionVars, burstVars, scoringVars>>

\* What the actions of one part leave unchanged: the other parts.
nonGateVars == <<poolVars, runVars, logVars, retryVars, storeVars,
                 sessionVars, burstVars, scoringVars>>
nonPoolVars == <<gateVars, runVars, logVars, retryVars, storeVars,
                 sessionVars, burstVars, scoringVars>>
nonRunVars == <<gateVars, poolVars, retryVars, storeVars, sessionVars,
                burstVars, scoringVars>>
nonRetryVars == <<gateVars, poolVars, runVars, storeVars, sessionVars,
                  burstVars, scoringVars>>
nonStoreVars == <<gateVars, poolVars, runVars, logVars, retryVars,
                  sessionVars, burstVars, scoringVars>>
nonSessionVars == <<gateVars, poolVars, runVars, logVars, retryVars,
                    burstVars, scoringVars>>
nonBurstVars == <<last_request_time, lock, pending, wpc, current_time,
                  sleep_time, gated, hist, poolVars, runVars, logVars,
                  retryVars, storeVars, sessionVars, scoringVars>>
harvestVars == <<gateVars, poolVars, runVars, logVars, retryVars, storeVars,
                 sessionVars, burstVars>>
nonDartsVars == <<harvestVars, validateVars, answerVars, syncVars>>
nonValidateVars == <<harvestVars, dartsVars, answerVars, syncVars>>
nonAnswerVars == <<harvestVars, dartsVars, validateVars, syncVars>>
nonSyncVars == <<harvestVars, dartsVars, validateVars, answerVars>>

Scrapers == {"ParallelPlayerScraper", "PlayerScraperV3", "BurstParallelScraper"}

\* No gap measured yet: larger than any gap the clock allows.
NoGap == MaxWait + MaxTime + 1

Min(a, b) == IF a <= b THEN a ELSE b

(***************************************************************************)
(* The history kept of the gate: how many values were written to           *)
(* last_request_time, the first of them and the smallest distance between  *)
(* two successive ones; the same for the returns of wait() and for the     *)
(* starts of the fetches, each in the global order in which they happen.   *)
(***************************************************************************)
HistInit ==
    [nStamps |-> 0, firstStamp |-> 0, minStampGap |-> NoGap,
     nReturns |-> 0, lastReturn |-> 0, minReturnGap |-> NoGap,
     nFetches |-> 0, lastFetch |-> 0, minFetchGap |-> NoGap]

(***************************************************************************)
(* RateLimiter.wait: the sleep it asks for.                                *)
(***************************************************************************)
NoSleepTime(cur, last, t) == 0

SleepTime(cur, last, t) ==
    IF cur - last < t THEN t - (cur - last) ELSE 0

(***************************************************************************)
(* _scrape_single_player / scrape_player: what a worker does before its    *)
(* fetch.  The strict harvesters call rate_limiter.wait(); the burst       *)
(* harvester only takes a permit of its semaphore.                         *)
(***************************************************************************)
UngatedBeforeFetch(s) == IF s = "BurstParallelScraper" THEN "sem" ELSE "return"

BeforeFetch(s) == IF s = "BurstParallelScraper" THEN "sem" ELSE "acquire"

\* The gate model at rest, for the specifications of the other parts.
GateOff ==
    /\ scraper = "ParallelPlayerScraper"
    /\ wait_time = 1
    /\ now = 0
    /\ last_request_time = 0
    /\ lock = NoWorker
    /\ permits = 0
    /\ pending = 0
    /\ wpc = <<>>
    /\ current_time = <<>>
    /\ sleep_time = <<>>
    /\ gated = <<>>
    /\ hist = HistInit

\* The pool model at rest, for the specifications of the other parts.
PoolOff ==
    /\ harvester = "ParallelPlayerScraper"
    /\ player_ids = <<>>
    /\ force_rescrape = FALSE
    /\ player = <<>>
    /\ jobs = <<>>
    /\ overall_stats = [players_processed |-> 0, players_skipped |-> 0,
                        total_stats_stored |-> 0, errors |-> 0]
    /\ pool_pc = "off"

\* The run drivers at rest, for the specifications of the other parts.
RunOff ==
    /\ op = "none"
    /\ use_parallel = FALSE
    /\ n_items = 0
    /\ ledger = <<>>
    /\ run_pc = "off"
    /\ idx = 0
    /\ actual = <<>>
    /\ run_stats = [players_processed |-> 0, players_skipped |-> 0,
                    errors |-> 0]
    /\ ended = "no"

LogsOff == logs = <<>>

\* The retry driver at rest, for the specifications of the other parts.
RetryOff ==
    /\ max_attempts = 1
    /\ retry_parallel = FALSE
    /\ player_ids_to_retry = <<>>
    /\ retry_pc = "off"
    /\ retry_idx = 0
    /\ invocations = 0
    /\ first_count = <<>>
    /\ resubmitted = <<>>
    /\ beyond = FALSE

StorePlayers == {"p1", "p2"}
Seasons == {"2022-2023", "2023-2024"}
Teams == {"Arsenal", "Chelsea"}
Competitions == {"Premier League"}

\* The key of a season record.
Keys == [player : StorePlayers, season : Seasons, team : Teams,
         competition : Competitions]

\* The season store at rest, for the specifications of the other parts.
StoreOff ==
    /\ crud = "crud_v2"
    /\ player_career_stats = <<>>
    /\ players = {}
    /\ career_stats = [p \in StorePlayers |-> <<>>]
    /\ upserts = 0
    /\ latest = [k \in Keys |-> [calls |-> 0, appearances |-> 0,
                                  previous |-> 0]]

\* The classifiers at rest, for the specifications of the other parts.
DartsOff ==
    /\ classifier = "none"
    /\ score = 0
    /\ flags = <<>>

\* validate_answers at rest, for the specifications of the other parts.
ValidateOff ==
    /\ validate_input = <<>>
    /\ validate_idx = 0
    /\ validate_stats = [total |-> 0, valid_scores |-> 0, invalid_scores |-> 0,
                         busts |-> 0, null_names |-> 0]

\* The recompute at rest, for the specifications of the other parts.
AnswersOff ==
    /\ populator = "none"
    /\ question = [aggregation |-> "sum", team_id |-> "none", min_score |-> 0]
    /\ teams = {}
    /\ season_stats = <<>>
    /\ table = <<>>
    /\ raw_stats = <<>>
    /\ answers = <<>>
    /\ ans_pc = "off"
    /\ runs = 0
    /\ prior = <<>>
    /\ first_result = [done |-> FALSE, rows |-> <<>>]
    /\ player_names = <<>>
    /\ filter_deleted = FALSE

\* update_answers at rest, for the specifications of the other parts.
SyncOff ==
    /\ answer_rows = <<>>
    /\ sync_call = [op |-> "none", question_id |-> "none",
                    new_answers |-> <<>>]
    /\ sync_old = <<>>
    /\ sync_result = [inserted |-> 0, updated |-> 0, deleted |-> 0]
    /\ sync_calls = 0

ScoringOff == DartsOff /\ ValidateOff /\ AnswersOff /\ SyncOff

\* The history kept of a batch of the burst harvester: the requests made,
\* the earliest request_time recorded, when the first request was issued,
\* how long the cooldown slept and when scrape_players_burst returned.
BurstHistInit ==
    [n |-> 0, first_request |-> 0, started |-> 0, first_start |-> 0,
     cooldown |-> 0, returned_at |-> 0]

\* The concurrent sessions at rest, for the specifications of the other
\* parts.
SessionsOff ==
    /\ session_args = <<>>
    /\ session_pc = <<>>
    /\ session_stats = <<>>

\* The burst harvester at rest, for the specifications of the other parts.
BurstOff ==
    /\ max_workers = 1
    /\ fresh = {}
    /\ request_times = <<>>
    /\ burst_jobs = <<>>
    /\ burst_pc = "off"
    /\ burst_wake = 0
    /\ burst_hist = BurstHistInit

GateInit ==
    /\ scraper \in Scrapers
    /\ wait_time \in 1..MaxWait
    /\ now = wait_time
    /\ last_request_time = 0
    /\ lock = NoWorker
    /\ permits = NumWorkers
    /\ pending = MaxCalls
    /\ wpc = [w \in Workers |-> "idle"]
    /\ current_time = [w \in Workers |-> 0]
    /\ sleep_time = [w \in Workers |-> 0]
    /\ gated = [w \in Workers |-> FALSE]
    /\ hist = HistInit

\* The clock advances; any thread may be delayed at any point.
Tick ==
    /\ now < MaxWait + MaxTime
    /\ now' = now + 1
    /\ UNCHANGED <<scraper, wait_time, last_request_time, lock, permits,
                   pending, wpc, current_time, sleep_time, gated, hist>>
    /\ UNCHANGED nonGateVars

\* A pool thread takes the next submitted job.
TakeJob(w) ==
    /\ wpc[w] = "idle"
    /\ pending > 0
    /\ pending' = pending - 1
    /\ wpc' = [wpc EXCEPT ![w] = BeforeFetch(scraper)]
    /\ UNCHANGED <<scraper, wait_time, now, last_request_time, lock, permits,
                   current_time, sleep_time, gated, hist>>
    /\ UNCHANGED nonGateVars

\* wait(): with self.lock: current_time = time.time(); the sleep is computed
\* from last_request_time.
Acquire(w) ==
    /\ wpc[w] = "acquire"
    /\ lock = NoWorker
    /\ lock' = w
    /\ current_time' = [current_time EXCEPT ![w] = now]
    /\ sleep_time' = [sleep_time EXCEPT
                        ![w] = SleepTime(now, last_request_time, wait_time)]
    /\ wpc' = [wpc EXCEPT ![w] = "sleep"]
    /\ UNCHANGED <<scraper, wait_time, now, last_request_time, permits,
                   pending, gated, hist>>
    /\ UNCHANGED nonGateVars

\* wait(): time.sleep(sleep_time) returns no earlier than asked; then
\* self.last_request_time = time.time().
Stamp(w) ==
    /\ wpc[w] = "sleep"
    /\ now >= current_time[w] + sleep_time[w]
    /\ last_request_time' = now
    /\ hist' = [hist EXCEPT
                  !.nStamps = @ + 1,
                  !.firstStamp = IF hist.nStamps = 0 THEN now ELSE @,
                  !.minStampGap = IF hist.nStamps = 0 THEN @
                                  ELSE Min(@, now - last_request_time)]
    /\ gated' = [gated EXCEPT ![w] = TRUE]
    /\ wpc' = [wpc EXCEPT ![w] = "release"]
    /\ UNCHANGED <<scraper, wait_time, now, lock, permits, pending,
                   current_time, sleep_time>>
    /\ UNCHANGED nonGateVars

\* wait(): the with block ends and the lock is released.
Release(w) ==
    /\ wpc[w] = "release"
    /\ lock' = NoWorker
    /\ current_time' = [current_time EXCEPT ![w] = 0]
    /\ sleep_time' = [sleep_time EXCEPT ![w] = 0]
    /\ wpc' = [wpc EXCEPT ![w] = "return"]
    /\ UNCHANGED <<scraper, wait_time, now, last_request_time, permits,
                   pending, gated, hist>>
    /\ UNCHANGED nonGateVars

\* wait() returns to the worker, which starts its Source Adapter fetch.
Return(w) ==
    /\ wpc[w] = "return"
    /\ hist' = [hist EXCEPT
                  !.nReturns = @ + 1,
                  !.lastReturn = now,
                  !.minReturnGap = IF hist.nReturns = 0 THEN @
                                   ELSE Min(@, now - hist.lastReturn),
                  !.nFetches = @ + 1,
                  !.lastFetch = now,
                  !.minFetchGap = IF hist.nFetches = 0 THEN @
                                  ELSE Min(@, now - hist.lastFetch)]
    /\ wpc' = [wpc EXCEPT ![w] = "fetching"]
    /\ UNCHANGED <<scraper, wait_time, now, last_request_time, lock, permits,
                   pending, current_time, sleep_time, gated>>
    /\ UNCHANGED nonGateVars

\* BurstParallelScraper: with self.semaphore: the fetch starts at once.
SemAcquire(w) ==
    /\ wpc[w] = "sem"
    /\ permits > 0
    /\ permits' = permits - 1
    /\ hist' = [hist EXCEPT
                  !.nFetches = @ + 1,
                  !.lastFetch = now,
                  !.minFetchGap = IF hist.nFetches = 0 THEN @
                                  ELSE Min(@, now - hist.lastFetch)]
    /\ wpc' = [wpc EXCEPT ![w] = "fetching"]
    /\ UNCHANGED <<scraper, wait_time, now, last_request_time, lock, pending,
                   current_time, sleep_time, gated>>
    /\ UNCHANGED nonGateVars

\* The fetch ends (with rows or with an exception); the thread is free again.
FetchEnd(w) ==
    /\ wpc[w] = "fetching"
    /\ wpc' = [wpc EXCEPT ![w] = "idle"]
    /\ permits' = IF scraper = "BurstParallelScraper" THEN permits + 1
                  ELSE permits
    /\ gated' = [gated EXCEPT ![w] = FALSE]
    /\ UNCHANGED <<scraper, wait_time, now, last_request_time, lock, pending,
                   current_time, sleep_time, hist>>
    /\ UNCHANGED nonGateVars

GateNext ==
    \/ Tick
    \/ \E w \in Workers : TakeJob(w)
    \/ \E w \in Workers : Acquire(w)
    \/ \E w \in Workers : Stamp(w)
    \/ \E w \in Workers : Release(w)
    \/ \E w \in Workers : Return(w)
    \/ \E w \in Workers : SemAcquire(w)
    \/ \E w \in Workers : FetchEnd(w)

InitGate ==
    /\ GateInit /\ PoolOff /\ RunOff /\ LogsOff /\ RetryOff /\ StoreOff
    /\ SessionsOff /\ BurstOff /\ ScoringOff

SpecGate == InitGate /\ [][GateNext]_vars

Strict == scraper # "BurstParallelScraper"

Fetching == {w \in Workers : wpc[w] = "fetching"}

Entities == 1..NumEntities

\* player.last_scraped_at is None; otherwise its age in days.
Never == -1

PoolScrapers == {"ParallelPlayerScraper", "PlayerScraperV3"}

\* The recency window of each harvester, in days.
RecencyDays(h) == IF h = "PlayerScraperV3" THEN 7 ELSE 30

\* _recently_scraped(player, days): last_scraped_at > utcnow() - days
RecentlyScraped(age, days) == age # Never /\ age < days

\* The freshness test at the head of the worker.
ShouldSkipIgnoringForce(h, row, force) ==
    IF h = "PlayerScraperV3"
    THEN row.exists /\ RecentlyScraped(row.age, RecencyDays(h))
    ELSE RecentlyScraped(row.age, RecencyDays(h))

ShouldSkip(h, row, force) ==
    IF h = "PlayerScraperV3"
    THEN row.exists /\ ~force /\ RecentlyScraped(row.age, RecencyDays(h))
    ELSE ~force /\ RecentlyScraped(row.age, RecencyDays(h))

\* A row of the players table that does not exist.
Absent == [exists |-> FALSE, fbref_id |-> FALSE, age |-> Never, upserts |-> 0]

\* The ages a player row starts with: never scraped, just inside the window,
\* on its edge.
Ages(h) == {Never, RecencyDays(h) - 1, RecencyDays(h)}

PlayerRows(h) ==
    {Absent}
    \cup {[exists |-> TRUE, fbref_id |-> TRUE, age |-> a, upserts |-> 0] :
              a \in Ages(h)}
    \cup (IF h = "PlayerScraperV3" THEN {}
          ELSE {[exists |-> TRUE, fbref_id |-> FALSE, age |-> Never,
                 upserts |-> 0]})

IdLists == UNION {[1..n -> Entities] : n \in 1..MaxIds}

Listed(ids) == {ids[i] : i \in DOMAIN ids}

\* The filter before the submit: "if player and player.fbref_id"; the V3 list
\* carries the fbref_id of each player itself.
HasJob(h, row) == h = "PlayerScraperV3" \/ (row.exists /\ row.fbref_id)

NewJob(e) ==
    [entity |-> e, pc |-> "queued", outcome |-> "none", age_seen |-> Never,
     gated |-> FALSE, fetched |-> FALSE, wrote |-> FALSE, stats_stored |-> 0]

ZeroStats ==
    [players_processed |-> 0, players_skipped |-> 0,
     total_stats_stored |-> 0, errors |-> 0]

\* The body of the as_completed loop: one future's result or exception.
TallyWithoutErrors(stats, job) ==
    IF job.outcome = "raised" THEN stats
    ELSE IF job.outcome = "skipped"
    THEN [stats EXCEPT !.players_skipped = @ + 1]
    ELSE [stats EXCEPT !.players_processed = @ + 1,
                       !.total_stats_stored = @ + job.stats_stored]

TallyWithoutStats(stats, job) ==
    IF job.outcome = "raised" THEN [stats EXCEPT !.errors = @ + 1]
    ELSE IF job.outcome = "skipped"
    THEN [stats EXCEPT !.players_skipped = @ + 1]
    ELSE [stats EXCEPT !.players_processed = @ + 1]

Tally(stats, job) ==
    IF job.outcome = "raised" THEN [stats EXCEPT !.errors = @ + 1]
    ELSE IF job.outcome = "skipped"
    THEN [stats EXCEPT !.players_skipped = @ + 1]
    ELSE [stats EXCEPT !.players_processed = @ + 1,
                       !.total_stats_stored = @ + job.stats_stored]

PoolInit ==
    /\ harvester \in PoolScrapers
    /\ player_ids \in IdLists
    /\ force_rescrape \in BOOLEAN
    /\ player \in [Entities -> PlayerRows(harvester)]
    /\ \A e \in Entities \ Listed(player_ids) : player[e] = Absent
    /\ jobs = <<>>
    /\ overall_stats = ZeroStats
    /\ pool_pc = "called"

\* scrape_players_parallel up to the submit: the filter and the futures.
Submit ==
    /\ pool_pc = "called"
    /\ LET valid == SelectSeq(player_ids,
                              LAMBDA e : HasJob(harvester, player[e]))
       IN /\ jobs' = [i \in 1..Len(valid) |-> NewJob(valid[i])]
          /\ overall_stats' =
                [overall_stats EXCEPT
                    !.players_skipped = Len(player_ids) - Len(valid)]
    /\ pool_pc' = "collecting"
    /\ UNCHANGED <<harvester, player_ids, force_rescrape, player>>
    /\ UNCHANGED nonPoolVars

Running == {j \in DOMAIN jobs : jobs[j].pc \in {"gate", "fetch"}}

\* A free pool thread takes the next future and runs the head of the worker:
\* the freshness test and, in V3, upsert_player.
Start(j) ==
    /\ pool_pc = "collecting"
    /\ j \in DOMAIN jobs
    /\ jobs[j].pc = "queued"
    /\ \A k \in 1..(j - 1) : jobs[k].pc # "queued"
    /\ Cardinality(Running) < NumWorkers
    /\ LET e == jobs[j].entity
           row == player[e]
       IN IF ShouldSkip(harvester, row, force_rescrape)
          THEN /\ jobs' = [jobs EXCEPT ![j].pc = "done",
                                       ![j].outcome = "skipped",
                                       ![j].age_seen = row.age]
               /\ UNCHANGED player
          ELSE /\ player' = IF harvester = "PlayerScraperV3"
                            THEN [player EXCEPT ![e].exists = TRUE,
                                                ![e].fbref_id = TRUE]
                            ELSE player
               /\ jobs' = [jobs EXCEPT ![j].pc = "gate",
                                       ![j].age_seen = row.age,
                                       ![j].wrote = (player'[e] # row)]
    /\ UNCHANGED <<harvester, player_ids, force_rescrape, overall_stats,
                   pool_pc>>
    /\ UNCHANGED nonPoolVars

\* self.rate_limiter.wait()
Gate(j) ==
    /\ j \in DOMAIN jobs
    /\ jobs[j].pc = "gate"
    /\ jobs' = [jobs EXCEPT ![j].pc = "fetch", ![j].gated = TRUE]
    /\ UNCHANGED <<harvester, player_ids, force_rescrape, player,
                   overall_stats, pool_pc>>
    /\ UNCHANGED nonPoolVars

\* The fetch and the parse succeed: n rows are upserted, then
\* update_player_last_scraped.
FetchOk(j, n) ==
    /\ j \in DOMAIN jobs
    /\ jobs[j].pc = "fetch"
    /\ jobs' = [jobs EXCEPT ![j].pc = "done", ![j].outcome = "ok",
                            ![j].fetched = TRUE, ![j].wrote = TRUE,
                            ![j].stats_stored = n]
    /\ player' = [player EXCEPT ![jobs[j].entity].age = 0,
                                ![jobs[j].entity].upserts = @ + n]
    /\ UNCHANGED <<harvester, player_ids, force_rescrape, overall_stats,
                   pool_pc>>
    /\ UNCHANGED nonPoolVars

\* The fetch or the parse raises: the worker logs and re-raises.
FetchRaise(j) ==
    /\ j \in DOMAIN jobs
    /\ jobs[j].pc = "fetch"
    /\ jobs' = [jobs EXCEPT ![j].pc = "done", ![j].outcome = "raised",
                            ![j].fetched = TRUE]
    /\ UNCHANGED <<harvester, player_ids, force_rescrape, player,
                   overall_stats, pool_pc>>
    /\ UNCHANGED nonPoolVars

\* as_completed yields a finished future; its result is tallied.
Collect(j) ==
    /\ pool_pc = "collecting"
    /\ j \in DOMAIN jobs
    /\ jobs[j].pc = "done"
    /\ overall_stats' = Tally(overall_stats, jobs[j])
    /\ jobs' = [jobs EXCEPT ![j].pc = "collected"]
    /\ UNCHANGED <<harvester, player_ids, force_rescrape, player, pool_pc>>
    /\ UNCHANGED nonPoolVars

\* Every future was seen: the executor is left and overall_stats returned.
Finish ==
    /\ pool_pc = "collecting"
    /\ \A j \in DOMAIN jobs : jobs[j].pc = "collected"
    /\ pool_pc' = "returned"
    /\ UNCHANGED <<harvester, player_ids, force_rescrape, player, jobs,
                   overall_stats>>
    /\ UNCHANGED nonPoolVars

PoolNext ==
    \/ Submit
    \/ \E j \in 1..MaxIds : Start(j)
    \/ \E j \in 1..MaxIds : Gate(j)
    \/ \E j \in 1..MaxIds, n \in 0..MaxRows : FetchOk(j, n)
    \/ \E j \in 1..MaxIds : FetchRaise(j)
    \/ \E j \in 1..MaxIds : Collect(j)
    \/ Finish

InitPool ==
    /\ PoolInit /\ GateOff /\ RunOff /\ LogsOff /\ RetryOff /\ StoreOff
    /\ SessionsOff /\ BurstOff /\ ScoringOff

SpecPool == InitPool /\ [][PoolNext]_vars

Jobs == DOMAIN jobs

Touched(j) == jobs[j].gated \/ jobs[j].fetched \/ jobs[j].wrote

\* C3 (as stated): within one call of scrape_players_parallel, also for a list
\* that names an entity more than once, no two workers fetch or upsert records
\* of the same entity.
C3_OneWorkerPerEntity ==
    \A j, k \in Jobs :
        (j # k /\ jobs[j].entity = jobs[k].entity) =>
            ~(Touched(j) /\ Touched(k))

\* C8: if the workers of any subset of the jobs raise, the call still comes to
\* its return, every other job has been harvested (merged, or skipped as
\* fresh), and the returned errors counter is the number of workers that
\* raised.
C8_ErrorsCounted ==
    /\ pool_pc \in {"called", "collecting", "returned"}
    /\ pool_pc \in {"called", "collecting"} => ENABLED PoolNext
    /\ pool_pc = "returned" =>
          /\ overall_stats.errors =
                Cardinality({j \in Jobs : jobs[j].outcome = "raised"})
          /\ \A j \in Jobs :
                /\ jobs[j].outcome \in {"ok", "skipped", "raised"}
                /\ jobs[j].outcome = "ok" =>
                      /\ jobs[j].fetched
                      /\ player[jobs[j].entity].age = 0
                      /\ player[jobs[j].entity].upserts >= jobs[j].stats_stored

\* C8 witness: the call has returned, one worker raised and another job was
\* harvested.
C8_Witness ==
    /\ pool_pc = "returned"
    /\ \E j, k \in Jobs : jobs[j].outcome = "raised" /\ jobs[k].outcome = "ok"
    /\ overall_stats.errors >= 1

\* Inside the recency window of the harvester: scraped, and less than 30 days
\* (V3: 7 days) ago.
C9_InsideWindow(age) ==
    /\ age # Never
    /\ age < (IF harvester = "PlayerScraperV3" THEN 7 ELSE 30)

\* C9: a worker that finds last_scraped_at inside the recency window, with
\* force_rescrape false, returns 'skipped' without passing the Rate Gate,
\* without fetching and without writing to the store or last_scraped_at; with
\* force_rescrape true no worker skips: every finished worker has fetched.
C9_FreshSkipped ==
    \A j \in Jobs :
        /\ (jobs[j].pc # "queued" /\ ~force_rescrape
                /\ C9_InsideWindow(jobs[j].age_seen)) =>
              /\ jobs[j].outcome = "skipped"
              /\ ~jobs[j].gated /\ ~jobs[j].fetched /\ ~jobs[j].wrote
              /\ jobs[j].stats_stored = 0
        /\ jobs[j].outcome = "skipped" =>
              /\ ~force_rescrape
              /\ C9_InsideWindow(jobs[j].age_seen)
        /\ (force_rescrape /\ jobs[j].pc \in {"done", "collected"}) =>
              jobs[j].gated /\ jobs[j].fetched

\* C9 witness: a worker has skipped a fresh entity whose row is as it was.
C9_Witness ==
    \E j \in Jobs :
        /\ jobs[j].outcome = "skipped"
        /\ C9_InsideWindow(jobs[j].age_seen)
        /\ player[jobs[j].entity].age = jobs[j].age_seen
        /\ player[jobs[j].entity].upserts = 0

(***************************************************************************)
(* The job-opening operations and the rows they write: scrape_jobs (the     *)
(* Job ledger) and player_scrape_logs.                                      *)
(***************************************************************************)
Ops == {"run_complete_scrape",            \* PremierLeagueScraper
        "scrape_league_players",          \* PlayerCareerScraper
        "career_update_current_season",   \* PlayerCareerScraper
        "populate_by_season_league",      \* QuestionPopulator
        "questions_update_current_season" \* QuestionPopulator
       }

\* _scrape_careers_parallel: batch_size
BatchSize == 50

\* create_scrape_job: the job_type each operation opens its job with.
JobType(o) ==
    CASE o = "run_complete_scrape" -> "premier_league_complete"
      [] o = "scrape_league_players" -> "career_scrape"
      [] o = "career_update_current_season" -> "weekly"
      [] o = "populate_by_season_league" -> "bulk"
      [] o = "questions_update_current_season" -> "weekly"

\* create_scrape_job
NewScrapeJob(t) == [job_type |-> t, status |-> "running"]

\* update_scrape_job(job_id, status=...)
SetJobStatus(l, i, st) == [l EXCEPT ![i].status = st]

\* The status each operation closes its own job with after its loop.
CloseStatus(o, stats) ==
    IF o \in {"career_update_current_season",
              "questions_update_current_season"}
    THEN "success"
    ELSE IF stats.errors = 0 THEN "success" ELSE "partial"

\* create_player_scrape_log(player_id, status='pending')
NewLog(p) == [player_id |-> p, status |-> "pending", attempt_count |-> 0]

\* The most recent log row of a player: the index, or 0.
RowsOf(l, p) == {i \in DOMAIN l : l[i].player_id = p}

LatestLog(l, p) ==
    IF RowsOf(l, p) = {} THEN 0
    ELSE CHOOSE i \in RowsOf(l, p) : \A k \in RowsOf(l, p) : k <= i

\* update_player_scrape_log(player_id, status, ...)
UpdateLog(l, p, st) ==
    IF LatestLog(l, p) = 0
    THEN Append(l, [player_id |-> p, status |-> st, attempt_count |-> 1])
    ELSE [l EXCEPT ![LatestLog(l, p)].status = st,
                   ![LatestLog(l, p)].attempt_count = @ + 1]

\* _update_batch_logs: every player of the batch is marked 'success'.
RECURSIVE UpdateBatchLogs(_, _)
UpdateBatchLogs(l, batch) ==
    IF batch = <<>> THEN l
    ELSE UpdateBatchLogs(UpdateLog(l, Head(batch), "success"), Tail(batch))

\* The status _scrape_careers_sequential logs for what happened to a player.
LogStatus(outcome) ==
    CASE outcome = "ok" -> "success"
      [] outcome = "failed" -> "failed"
      [] outcome = "skipped" -> "skipped"

Outcomes == {"ok", "failed", "skipped"}

Count(f, v) == Cardinality({i \in DOMAIN f : f[i] = v})

\* The counters after one item of a loop.  QuestionPopulator's weekly update
\* logs a failed question and counts nothing.
AddOutcome(o, stats, outcome) ==
    CASE outcome = "ok" -> [stats EXCEPT !.players_processed = @ + 1]
      [] outcome = "skipped" ->
            IF o = "questions_update_current_season" THEN stats
            ELSE [stats EXCEPT !.players_skipped = @ + 1]
      [] outcome = "failed" ->
            IF o = "questions_update_current_season" THEN stats
            ELSE [stats EXCEPT !.errors = @ + 1]

RunInit ==
    /\ op \in Ops
    /\ use_parallel \in BOOLEAN
    /\ op # "run_complete_scrape" => use_parallel = FALSE
    /\ n_items \in 0..MaxItems
    /\ ledger = <<>>
    /\ logs = <<>>
    /\ run_pc = "start"
    /\ idx = 0
    /\ actual = <<>>
    /\ run_stats = [players_processed |-> 0, players_skipped |-> 0,
                    errors |-> 0]
    /\ ended = "no"

\* The operation opens its Job; the weekly career update then calls
\* scrape_league_players, which opens a Job of its own.
OpenJob ==
    /\ run_pc = "start"
    /\ ledger' = Append(ledger, NewScrapeJob(JobType(op)))
    /\ run_pc' = IF op = "career_update_current_season" THEN "call"
                 ELSE "prepare"
    /\ UNCHANGED <<op, use_parallel, n_items, logs, idx, actual, run_stats,
                   ended>>
    /\ UNCHANGED nonRunVars

CallLeaguePlayers ==
    /\ run_pc = "call"
    /\ ledger' = Append(ledger, NewScrapeJob(JobType("scrape_league_players")))
    /\ run_pc' = "prepare"
    /\ UNCHANGED <<op, use_parallel, n_items, logs, idx, actual, run_stats,
                   ended>>
    /\ UNCHANGED nonRunVars

\* The work before the loop succeeds: the roster or the question list is
\* there.  run_complete_scrape returns early when no player has an FBref id,
\* and otherwise creates a pending scrape log for each player.
Prepare ==
    /\ run_pc = "prepare"
    /\ IF op = "run_complete_scrape" /\ n_items = 0
       THEN /\ run_pc' = "finished"
            /\ ended' = "returned"
            /\ UNCHANGED logs
       ELSE /\ run_pc' = "loop"
            /\ logs' = IF op = "run_complete_scrape"
                       THEN logs \o [i \in 1..n_items |-> NewLog(i)]
                       ELSE logs
            /\ UNCHANGED ended
    /\ UNCHANGED <<op, use_parallel, n_items, ledger, idx, actual, run_stats>>
    /\ UNCHANGED nonRunVars

\* The work before the loop raises an Exception: every open handler marks its
\* job 'failed' and re-raises.
PrepareRaises ==
    /\ run_pc = "prepare"
    /\ ledger' = [i \in DOMAIN ledger |->
                     [ledger[i] EXCEPT !.status = "failed"]]
    /\ run_pc' = "finished"
    /\ ended' = "raised"
    /\ UNCHANGED <<op, use_parallel, n_items, logs, idx, actual, run_stats>>
    /\ UNCHANGED nonRunVars

\* KeyboardInterrupt: run_complete_scrape catches it and marks its job
\* 'partial'; the other operations catch only Exception.
Interrupt ==
    /\ run_pc \in {"prepare", "loop"}
    /\ IF op = "run_complete_scrape"
       THEN ledger' = SetJobStatus(ledger, 1, "partial")
       ELSE UNCHANGED ledger
    /\ ended' = "interrupted"
    /\ run_pc' = "finished"
    /\ UNCHANGED <<op, use_parallel, n_items, logs, idx, actual, run_stats>>
    /\ UNCHANGED nonRunVars

Sequential == ~(op = "run_complete_scrape" /\ use_parallel)

\* One iteration of a sequential loop: the player (question) is processed,
\* skipped or fails; the failure is caught.  _scrape_careers_sequential logs
\* the status; populate_by_season_league runs populate_single_question, which
\* opens and closes a Job of its own.
Item(outcome) ==
    /\ run_pc = "loop"
    /\ Sequential
    /\ idx < n_items
    /\ op = "populate_by_season_league" => outcome # "skipped"
    /\ idx' = idx + 1
    /\ actual' = Append(actual, outcome)
    /\ run_stats' = AddOutcome(op, run_stats, outcome)
    /\ logs' = IF op = "run_complete_scrape"
               THEN UpdateLog(logs, idx + 1, LogStatus(outcome))
               ELSE logs
    /\ ledger' = IF op = "populate_by_season_league"
                 THEN Append(ledger,
                             [job_type |-> "manual",
                              status |-> IF outcome = "ok" THEN "success"
                                         ELSE "failed"])
                 ELSE ledger
    /\ UNCHANGED <<op, use_parallel, n_items, run_pc, ended>>
    /\ UNCHANGED nonRunVars

BatchEnd == IF idx + BatchSize < n_items THEN idx + BatchSize ELSE n_items

Batch == [i \in 1..(BatchEnd - idx) |-> idx + i]

RECURSIVE AddOutcomes(_, _, _)
AddOutcomes(o, stats, outs) ==
    IF outs = <<>> THEN stats
    ELSE AddOutcomes(o, AddOutcome(o, stats, Head(outs)), Tail(outs))

\* _scrape_careers_parallel: scrape_players_parallel returns for a batch; its
\* counters are added and _update_batch_logs runs.
BatchDone(outs) ==
    /\ run_pc = "loop"
    /\ ~Sequential
    /\ idx < n_items
    /\ outs \in [1..(BatchEnd - idx) -> Outcomes]
    /\ idx' = BatchEnd
    /\ actual' = actual \o outs
    /\ run_stats' = AddOutcomes(op, run_stats, outs)
    /\ logs' = UpdateBatchLogs(logs, Batch)
    /\ UNCHANGED <<op, use_parallel, n_items, ledger, run_pc, ended>>
    /\ UNCHANGED nonRunVars

\* _scrape_careers_parallel: scrape_players_parallel raises for a batch.
BatchRaises ==
    /\ run_pc = "loop"
    /\ ~Sequential
    /\ idx < n_items
    /\ idx' = BatchEnd
    /\ actual' = actual \o [i \in 1..(BatchEnd - idx) |-> "failed"]
    /\ run_stats' = [run_stats EXCEPT !.errors = @ + (BatchEnd - idx)]
    /\ UNCHANGED <<op, use_parallel, n_items, ledger, logs, run_pc, ended>>
    /\ UNCHANGED nonRunVars

\* The loop is over: the operation closes its job and returns.  In the weekly
\* career update scrape_league_players closes its job, then the caller its
\* own.
CloseJob ==
    /\ run_pc = "loop"
    /\ idx = n_items
    /\ ledger' =
          IF op = "career_update_current_season"
          THEN SetJobStatus(
                  SetJobStatus(ledger, 2,
                               CloseStatus("scrape_league_players", run_stats)),
                  1, CloseStatus(op, run_stats))
          ELSE SetJobStatus(ledger, 1, CloseStatus(op, run_stats))
    /\ run_pc' = "finished"
    /\ ended' = "returned"
    /\ UNCHANGED <<op, use_parallel, n_items, logs, idx, actual, run_stats>>
    /\ UNCHANGED nonRunVars

RunNext ==
    \/ OpenJob
    \/ CallLeaguePlayers
    \/ Prepare
    \/ PrepareRaises
    \/ Interrupt
    \/ \E outcome \in Outcomes : Item(outcome)
    \/ \E outs \in UNION {[1..n -> Outcomes] : n \in 1..MaxItems} :
          BatchDone(outs)
    \/ BatchRaises
    \/ CloseJob

InitRun ==
    /\ RunInit /\ GateOff /\ PoolOff /\ RetryOff /\ StoreOff
    /\ SessionsOff /\ BurstOff /\ ScoringOff

SpecRun == InitRun /\ [][RunNext]_vars

(***************************************************************************)
(* Claims about the scrape logs and the Job ledger                          *)
(***************************************************************************)
RunFinished == ended = "returned" /\ n_items > 0

Failures == Count(actual, "failed")

\* C4 (as stated): once run_complete_scrape has finished a run, every
\* player's scrape log carries the terminal status of what happened to that
\* player -- 'success' for a completed harvest, 'failed' when its worker
\* raised, 'skipped' when it was not fetched -- and none is left 'pending'.
\* The parallel run marks every player of a batch 'success'.
C4_LogMatchesOutcome ==
    (op = "run_complete_scrape" /\ RunFinished) =>
        \A i \in 1..n_items :
            /\ LatestLog(logs, i) # 0
            /\ logs[LatestLog(logs, i)].status = LogStatus(actual[i])

\* C6 (as stated, for the runs that reach the end of their loop): the
\* operation's Job is closed 'success' exactly when no player or question
\* failed and 'partial' exactly when at least one did, and it is 'failed'
\* only when the operation aborted with an exception.  The two weekly updates
\* close 'success' whatever the failures.
C6_StatusMatchesFailures ==
    /\ RunFinished =>
          /\ Failures = 0 => ledger[1].status = "success"
          /\ Failures >= 1 => ledger[1].status = "partial"
    /\ (ledger # <<>> /\ ledger[1].status = "failed") => ended = "raised"

\* C7 (as stated): once an operation has ended -- returned, raised or been
\* interrupted -- no Job it opened is still 'running'.  run_complete_scrape
\* returns early without closing its job when no player has an FBref id, and
\* only run_complete_scrape catches the interrupt.
C7_NoJobLeftRunning ==
    ended # "no" => \A i \in DOMAIN ledger : ledger[i].status # "running"

(***************************************************************************)
(* retry_failed_players, invoked again and again with one max_attempts.    *)
(***************************************************************************)
Players == 1..NumPlayers

\* The rows runs of run_complete_scrape leave: one attempt, failed or not.
LeftRows == [player_id : Players, status : {"failed", "success"},
             attempt_count : {1}]

\* get_failed_players: the player of every row with status 'failed'.
GetFailedPlayers(l) ==
    SelectSeq([i \in DOMAIN l |-> l[i]],
              LAMBDA r : r.status = "failed")

\* retry_failed_players, the filter by attempt count: the player's most
\* recent log must have attempt_count < max_attempts.
RECURSIVE RetryList(_, _, _)
RetryList(failed, l, m) ==
    IF failed = <<>> THEN <<>>
    ELSE LET p == Head(failed).player_id
             rest == RetryList(Tail(failed), l, m)
         IN IF LatestLog(l, p) # 0 /\ l[LatestLog(l, p)].attempt_count < m
            THEN <<p>> \o rest
            ELSE rest

AttemptCount(l, p) ==
    IF LatestLog(l, p) = 0 THEN 0 ELSE l[LatestLog(l, p)].attempt_count

\* The fetches one call makes for a list of players, added to the history.
RECURSIVE Fetched(_, _)
Fetched(counts, ids) ==
    IF ids = <<>> THEN counts
    ELSE Fetched([counts EXCEPT ![Head(ids)] = @ + 1], Tail(ids))

RetryInit ==
    /\ max_attempts \in 1..MaxAttempts
    /\ retry_parallel = FALSE
    /\ logs \in UNION {[1..n -> LeftRows] : n \in 1..MaxLogRows}
    /\ player_ids_to_retry = <<>>
    /\ retry_pc = "idle"
    /\ retry_idx = 0
    /\ invocations = 0
    /\ first_count = [p \in Players |-> AttemptCount(logs, p)]
    /\ resubmitted = [p \in Players |-> 0]
    /\ beyond = FALSE

\* An invocation up to the choice of mode: with nobody to retry it returns.
Invoke(par) ==
    /\ retry_pc = "idle"
    /\ invocations < MaxInvocations
    /\ invocations' = invocations + 1
    /\ retry_parallel' = par
    /\ player_ids_to_retry' =
          RetryList(GetFailedPlayers(logs), logs, max_attempts)
    /\ retry_idx' = 0
    /\ retry_pc' = IF player_ids_to_retry' = <<>> THEN "idle" ELSE "retry"
    /\ UNCHANGED <<max_attempts, first_count, resubmitted, beyond, logs>>
    /\ UNCHANGED nonRetryVars

\* Parallel mode: scrape_players_parallel(force_rescrape=True) fetches for
\* every element of the list; the logs are not written.
RetryParallel ==
    /\ retry_pc = "retry"
    /\ retry_parallel
    /\ resubmitted' = Fetched(resubmitted, player_ids_to_retry)
    /\ beyond' = (beyond \/ \E i \in DOMAIN player_ids_to_retry :
                     AttemptCount(logs, player_ids_to_retry[i]) >= max_attempts)
    /\ retry_pc' = "idle"
    /\ UNCHANGED <<max_attempts, retry_parallel, player_ids_to_retry,
                   retry_idx, invocations, first_count, logs>>
    /\ UNCHANGED nonRetryVars

\* Sequential mode, one iteration: the player is fetched (forced) and the
\* most recent log is updated with the result.
RetryItem(outcome) ==
    /\ retry_pc = "retry"
    /\ ~retry_parallel
    /\ retry_idx < Len(player_ids_to_retry)
    /\ LET p == player_ids_to_retry[retry_idx + 1] IN
          /\ resubmitted' = [resubmitted EXCEPT ![p] = @ + 1]
          /\ beyond' = (beyond \/ AttemptCount(logs, p) >= max_attempts)
          /\ logs' = UpdateLog(logs, p, LogStatus(outcome))
    /\ retry_idx' = retry_idx + 1
    /\ UNCHANGED <<max_attempts, retry_parallel, player_ids_to_retry,
                   retry_pc, invocations, first_count>>
    /\ UNCHANGED nonRetryVars

RetryEnd ==
    /\ retry_pc = "retry"
    /\ ~retry_parallel
    /\ retry_idx = Len(player_ids_to_retry)
    /\ retry_pc' = "idle"
    /\ UNCHANGED <<max_attempts, retry_parallel, player_ids_to_retry,
                   retry_idx, invocations, first_count, resubmitted, beyond,
                   logs>>
    /\ UNCHANGED nonRetryVars

RetryNext ==
    \/ \E par \in BOOLEAN : Invoke(par)
    \/ RetryParallel
    \/ \E outcome \in {"ok", "failed"} : RetryItem(outcome)
    \/ RetryEnd

InitRetry ==
    /\ RetryInit /\ GateOff /\ PoolOff /\ RunOff /\ StoreOff
    /\ SessionsOff /\ BurstOff /\ ScoringOff

SpecRetry == InitRetry /\ [][RetryNext]_vars

\* C5 (as stated): over the invocations of retry_failed_players with
\* max_attempts = M, every resubmission of a player adds one to its
\* attempt_count, attempt_count never exceeds M, and no player is fetched
\* once its attempt_count has reached M.  Parallel mode fetches and leaves
\* the logs as they were.
C5_RetryBounded ==
    retry_pc = "idle" =>
        /\ ~beyond
        /\ \A p \in Players :
              /\ AttemptCount(logs, p) <= max_attempts
              /\ first_count[p] > 0 =>
                    AttemptCount(logs, p) = first_count[p] + resubmitted[p]

(***************************************************************************)
(* The season store: crud_v2.upsert_player_career_stats on the table       *)
(* player_career_stats, crud_v3.add_player_season_stats on the JSONB list  *)
(* career_stats of a player.  A record's five counters are assigned alike; *)
(* appearances stands for them.                                            *)
(***************************************************************************)
KeyOf(p, r) == [player |-> p, season |-> r.season, team |-> r.team,
                competition |-> r.competition]

\* The first element of a list of season records with this season, team and
\* competition: its index, or 0.
MatchesOf(stats, season, team, competition) ==
    {i \in DOMAIN stats : /\ stats[i].season = season
                          /\ stats[i].team = team
                          /\ stats[i].competition = competition}

FindNothing(stats, season, team, competition) == 0

FindSeason(stats, season, team, competition) ==
    IF MatchesOf(stats, season, team, competition) = {} THEN 0
    ELSE CHOOSE i \in MatchesOf(stats, season, team, competition) :
            \A k \in MatchesOf(stats, season, team, competition) : i <= k

FindNoStat(rows, k) == 0

\* upsert_player_career_stats: the query for the existing row.
FindStat(rows, k) ==
    IF {i \in DOMAIN rows : KeyOf(rows[i].player_id, rows[i]) = k} = {} THEN 0
    ELSE CHOOSE i \in DOMAIN rows :
            /\ KeyOf(rows[i].player_id, rows[i]) = k
            /\ \A j \in DOMAIN rows :
                  KeyOf(rows[j].player_id, rows[j]) = k => i <= j

Called(l, k, appearances) ==
    [l EXCEPT ![k] = [calls |-> @.calls + 1, appearances |-> appearances,
                      previous |-> @.appearances]]

ReplacedRows(rows, k, appearances) ==
    <<[player_id |-> k.player, season |-> k.season, team |-> k.team,
       competition |-> k.competition, appearances |-> appearances]>>

\* upsert_player_career_stats: the table after the call.
UpsertedRows(rows, k, appearances) ==
    IF FindStat(rows, k) # 0
    THEN [rows EXCEPT ![FindStat(rows, k)].appearances = appearances]
    ELSE Append(rows, [player_id |-> k.player, season |-> k.season,
                       team |-> k.team, competition |-> k.competition,
                       appearances |-> appearances])

\* add_player_season_stats: the player's list after a call that finds the
\* player.
AddedStats(current_stats, k, appearances) ==
    LET season_data == [season |-> k.season, team |-> k.team,
                        competition |-> k.competition,
                        appearances |-> appearances]
        i == FindSeason(current_stats, k.season, k.team, k.competition)
    IN IF i # 0 THEN [current_stats EXCEPT ![i] = season_data]
       ELSE Append(current_stats, season_data)

StoreInit ==
    /\ crud \in {"crud_v2", "crud_v3"}
    /\ player_career_stats = <<>>
    /\ players = {}
    /\ career_stats = [p \in StorePlayers |-> <<>>]
    /\ upserts = 0
    /\ latest = [k \in Keys |-> [calls |-> 0, appearances |-> 0,
                                 previous |-> 0]]

\* crud_v2: upsert_player_career_stats
upsert_player_career_stats(k, appearances) ==
    /\ crud = "crud_v2"
    /\ upserts < MaxUpserts
    /\ upserts' = upserts + 1
    /\ player_career_stats' = UpsertedRows(player_career_stats, k, appearances)
    /\ latest' = Called(latest, k, appearances)
    /\ UNCHANGED <<crud, players, career_stats>>
    /\ UNCHANGED nonStoreVars

\* crud_v3: upsert_player
upsert_player(p) ==
    /\ crud = "crud_v3"
    /\ p \notin players
    /\ players' = players \cup {p}
    /\ UNCHANGED <<crud, player_career_stats, career_stats, upserts, latest>>
    /\ UNCHANGED nonStoreVars

\* crud_v3: add_player_season_stats; without a row for the player it returns
\* False and stores nothing.
add_player_season_stats(k, appearances) ==
    /\ crud = "crud_v3"
    /\ upserts < MaxUpserts
    /\ upserts' = upserts + 1
    /\ IF k.player \notin players
       THEN UNCHANGED <<career_stats, latest>>
       ELSE /\ career_stats' =
                  [career_stats EXCEPT ![k.player] =
                      AddedStats(career_stats[k.player], k, appearances)]
            /\ latest' = Called(latest, k, appearances)
    /\ UNCHANGED <<crud, player_career_stats, players>>
    /\ UNCHANGED nonStoreVars

StoreNext ==
    \/ \E k \in Keys, appearances \in 0..MaxCount :
          upsert_player_career_stats(k, appearances)
    \/ \E p \in StorePlayers : upsert_player(p)
    \/ \E k \in Keys, appearances \in 0..MaxCount :
          add_player_season_stats(k, appearances)

InitStore ==
    /\ StoreInit /\ GateOff /\ PoolOff /\ RunOff /\ LogsOff /\ RetryOff
    /\ SessionsOff /\ BurstOff /\ ScoringOff

\* The harvesting side at rest, for the specifications of the scoring side.
HarvestOff ==
    /\ GateOff /\ PoolOff /\ RunOff /\ LogsOff /\ RetryOff /\ StoreOff
    /\ SessionsOff /\ BurstOff

SpecStore == InitStore /\ [][StoreNext]_vars

\* The season records the store holds for a key.
RecordsOf(k) ==
    IF crud = "crud_v2"
    THEN {<<0, i>> : i \in {j \in DOMAIN player_career_stats :
                      KeyOf(player_career_stats[j].player_id,
                            player_career_stats[j]) = k}}
    ELSE {<<1, i>> : i \in {j \in DOMAIN career_stats[k.player] :
                      KeyOf(k.player, career_stats[k.player][j]) = k}}

RecordAt(k, r) ==
    IF r[1] = 0 THEN player_career_stats[r[2]]
    ELSE career_stats[k.player][r[2]]

\* C10: after any sequence of season upserts the store holds at most one
\* season record per (player, season, team, competition); a key that was
\* upserted has exactly one, with the counters of the most recent upsert of
\* the key, so that a second upsert of a key adds no record.
C10_OneRecordPerKey ==
    \A k \in Keys :
        /\ Cardinality(RecordsOf(k)) <= 1
        /\ Cardinality(RecordsOf(k)) = (IF latest[k].calls > 0 THEN 1 ELSE 0)
        /\ \A r \in RecordsOf(k) :
              RecordAt(k, r).appearances = latest[k].appearances

\* C10, its case: a key was upserted twice with different counters, in
\* either store.
C10_Witness ==
    \E k \in Keys :
        /\ latest[k].calls >= 2
        /\ latest[k].previous # latest[k].appearances
        /\ RecordsOf(k) # {}

\* C11: the season upsert is idempotent: an upsert that repeats, for its
\* key, the counters of the upsert before it on that key leaves the records
\* of both stores and their counters as they were.
C11_UpsertIdempotent ==
    [][\A k \in Keys :
          (/\ latest[k].calls >= 1
           /\ latest'[k].calls = latest[k].calls + 1
           /\ latest'[k].appearances = latest[k].appearances) =>
              /\ player_career_stats' = player_career_stats
              /\ career_stats' = career_stats]_vars

\* C11, its case: the same upsert was applied twice in a row to a key.
C11_Witness ==
    \E k \in Keys :
        /\ latest[k].calls >= 2
        /\ latest[k].previous = latest[k].appearances
        /\ Cardinality(RecordsOf(k)) = 1

\* The season records of the store as a set, each with its player.
StoredRecords ==
    IF crud = "crud_v2"
    THEN {[player |-> player_career_stats[i].player_id,
           season |-> player_career_stats[i].season,
           team |-> player_career_stats[i].team,
           competition |-> player_career_stats[i].competition,
           appearances |-> player_career_stats[i].appearances] :
             i \in DOMAIN player_career_stats}
    ELSE UNION {{[player |-> p,
                  season |-> career_stats[p][i].season,
                  team |-> career_stats[p][i].team,
                  competition |-> career_stats[p][i].competition,
                  appearances |-> career_stats[p][i].appearances] :
                    i \in DOMAIN career_stats[p]} : p \in StorePlayers}

\* C24: harvest order does not matter: after season upserts with pairwise
\* distinct keys, applied in any order, the set of stored season records is
\* the set of the upserts that were applied, each with its own counters.
C24_OrderIndependent ==
    (\A k \in Keys : latest[k].calls <= 1) =>
        StoredRecords =
            {[player |-> k.player, season |-> k.season, team |-> k.team,
              competition |-> k.competition,
              appearances |-> latest[k].appearances] :
                k \in {x \in Keys : latest[x].calls = 1}}

\* C24, its case: two upserts with different keys and different counters
\* were applied, each once.
C24_Witness ==
    /\ \A k \in Keys : latest[k].calls <= 1
    /\ \E k1, k2 \in Keys :
          /\ k1 # k2
          /\ latest[k1].calls = 1 /\ latest[k2].calls = 1
          /\ latest[k1].appearances # latest[k2].appearances
          /\ Cardinality(StoredRecords) = 2

(***************************************************************************)
(* The classifiers that write the flags is_valid_darts_score and is_bust   *)
(* of an Answer.                                                            *)
(***************************************************************************)
Classifiers == {"DataTransformer", "crud_v3", "QuestionPopulator",
                "populate_answers_v2"}

\* config.py: invalid_darts_scores, and the same set written out in
\* populate_questions_v2.py, utils/darts.py and the SQL of crud_v3.py.
invalid_darts_scores == {163, 166, 169, 172, 173, 175, 176, 178, 179}

\* DataTransformer._is_valid_darts_score and _is_bust
TransformerFlags(s) ==
    [is_valid_darts_score |-> s \notin invalid_darts_scores /\ 1 <= s /\ s <= 180,
     is_bust |-> s > 180]

\* crud_v3.populate_question_answers: the two CASE expressions.
SqlFlags(s) ==
    [is_valid_darts_score |-> (1 <= s /\ s <= 180)
                                 /\ s \notin invalid_darts_scores,
     is_bust |-> s > 180]

\* populate_questions_v2.QuestionPopulator._is_valid_darts_score and
\* _is_bust
PopulatorFlags(s) ==
    [is_valid_darts_score |-> s \notin invalid_darts_scores,
     is_bust |-> s > 180 \/ s < -10]

\* utils.darts.is_valid_darts_score
is_valid_darts_score(s) ==
    IF s < 0 \/ s > 180 THEN FALSE
    ELSE IF s \in invalid_darts_scores THEN FALSE
    ELSE TRUE

\* populate_answers_v2.run: is_valid and is_bust
RunFlags(s) ==
    [is_valid_darts_score |-> is_valid_darts_score(s),
     is_bust |-> s > 180 \/ s <= 0]

FlagsOf(c, s) ==
    CASE c = "DataTransformer" -> TransformerFlags(s)
      [] c = "crud_v3" -> SqlFlags(s)
      [] c = "QuestionPopulator" -> PopulatorFlags(s)
      [] c = "populate_answers_v2" -> RunFlags(s)

\* crud_v3 (WHERE score > 0) and populate_answers_v2 (if total_score > 0)
\* classify positive scores only.
Classifies(c, s) ==
    c \in {"crud_v3", "populate_answers_v2"} => s > 0

DartsInit ==
    /\ classifier \in Classifiers
    /\ score \in LowScore..HighScore
    /\ flags = <<>>

Classify ==
    /\ flags = <<>>
    /\ Classifies(classifier, score)
    /\ flags' = <<FlagsOf(classifier, score)>>
    /\ UNCHANGED <<classifier, score>>
    /\ UNCHANGED nonDartsVars

DartsNext == Classify

InitDarts ==
    DartsInit /\ HarvestOff /\ ValidateOff /\ AnswersOff /\ SyncOff

SpecDarts == InitDarts /\ [][DartsNext]_vars

\* C13 (as stated): whatever the classifier, a classified score s has
\* is_bust = (s > 180) and is_valid = (1 <= s <= 180 and s not one of the
\* nine impossible scores), so no score is both valid and bust.
\* QuestionPopulator (v2) tests only the nine scores and also busts below
\* -10.
C13_FlagsMatchRule ==
    flags # <<>> =>
        /\ flags[1].is_bust = (score > 180)
        /\ flags[1].is_valid_darts_score =
              (1 <= score /\ score <= 180 /\ score \notin invalid_darts_scores)
        /\ ~(flags[1].is_valid_darts_score /\ flags[1].is_bust)

(***************************************************************************)
(* DataTransformer.validate_answers                                         *)
(***************************************************************************)
\* The values answer.get('player_name') has: None, '', or a name.
PlayerNames == {"None", "", "Erling Haaland"}

\* not answer.get('player_name')
NoName(answer) == answer.player_name \in {"None", ""}

AnswerDicts == [player_name : PlayerNames, is_bust : BOOLEAN,
                is_valid_darts_score : BOOLEAN]

\* The loop body without the continue after a null name.
CountedWithoutContinue(stats, answer) ==
    LET named == IF NoName(answer)
                 THEN [stats EXCEPT !.null_names = @ + 1]
                 ELSE stats
    IN IF answer.is_bust THEN [named EXCEPT !.busts = @ + 1]
       ELSE IF answer.is_valid_darts_score
            THEN [named EXCEPT !.valid_scores = @ + 1]
            ELSE [named EXCEPT !.invalid_scores = @ + 1]

\* validate_answers: the body of the loop.
Counted(stats, answer) ==
    IF NoName(answer) THEN [stats EXCEPT !.null_names = @ + 1]
    ELSE IF answer.is_bust THEN [stats EXCEPT !.busts = @ + 1]
    ELSE IF answer.is_valid_darts_score
         THEN [stats EXCEPT !.valid_scores = @ + 1]
         ELSE [stats EXCEPT !.invalid_scores = @ + 1]

ValidateInit ==
    /\ validate_input \in UNION {[1..n -> AnswerDicts] : n \in 0..MaxAnswers}
    /\ validate_idx = 0
    /\ validate_stats = [total |-> Len(validate_input), valid_scores |-> 0,
                         invalid_scores |-> 0, busts |-> 0, null_names |-> 0]

\* One iteration of the loop of validate_answers.
ValidateAnswer ==
    /\ validate_idx < Len(validate_input)
    /\ validate_idx' = validate_idx + 1
    /\ validate_stats' = Counted(validate_stats, validate_input[validate_idx + 1])
    /\ UNCHANGED validate_input
    /\ UNCHANGED nonValidateVars

ValidateNext == ValidateAnswer

InitValidate ==
    ValidateInit /\ HarvestOff /\ DartsOff /\ AnswersOff /\ SyncOff

SpecValidate == InitValidate /\ [][ValidateNext]_vars

\* The answers dealt with so far that satisfy a condition.
Seen(P(_)) ==
    Cardinality({i \in 1..validate_idx : P(validate_input[i])})

IsNull(a) == NoName(a)
IsBust(a) == ~NoName(a) /\ a.is_bust
IsValidScore(a) == ~NoName(a) /\ ~a.is_bust /\ a.is_valid_darts_score
IsInvalidScore(a) == ~NoName(a) /\ ~a.is_bust /\ ~a.is_valid_darts_score

\* C20: validate_answers counts every answer in exactly one of null_names,
\* busts, valid_scores and invalid_scores -- a missing name first, then
\* is_bust, then is_valid_darts_score -- so that at the end total is the sum
\* of the four counters.
C20_Partition ==
    /\ validate_stats.total = Len(validate_input)
    /\ validate_stats.null_names = Seen(IsNull)
    /\ validate_stats.busts = Seen(IsBust)
    /\ validate_stats.valid_scores = Seen(IsValidScore)
    /\ validate_stats.invalid_scores = Seen(IsInvalidScore)
    /\ validate_stats.null_names + validate_stats.busts
          + validate_stats.valid_scores + validate_stats.invalid_scores
          = validate_idx
    /\ validate_idx = Len(validate_input) =>
          validate_stats.total =
              validate_stats.null_names + validate_stats.busts
                + validate_stats.valid_scores + validate_stats.invalid_scores

\* C20, its case: the whole list was counted, and it holds a nameless answer
\* flagged bust as well as a named one.
C20_Witness ==
    /\ validate_idx = Len(validate_input)
    /\ \E i, j \in 1..validate_idx :
          /\ NoName(validate_input[i]) /\ validate_input[i].is_bust
          /\ ~NoName(validate_input[j])

(***************************************************************************)
(* Recomputing the Answer Set of a question from the season records:       *)
(*   populate_questions     jobs/populate_questions.py (scraped rows)       *)
(*   populate_questions_v2  jobs/populate_questions_v2.py + crud_v2         *)
(*   populate_answers_v2    populate_answers_v2.run                         *)
(*   crud_v3                crud_v3.populate_question_answers               *)
(* The target metric is appearances; the filter modelled is the team.       *)
(***************************************************************************)
Populators == {"populate_questions", "populate_questions_v2",
               "populate_answers_v2", "crud_v3"}

Aggregations == {"sum", "single_season", "latest_season"}

\* Table players, in the order of the table.
AnswerPlayers == <<"e1", "e2">>

\* The names a player can have.
Names == {"J Smith", "j smith ", "A Jones"}

PlayerName(e) ==
    player_names[CHOOSE i \in DOMAIN AnswerPlayers : AnswerPlayers[i] = e]

\* normalized_name = name.lower().strip()
Normalized(name) ==
    CASE name \in {"J Smith", "j smith "} -> "j smith"
      [] name = "A Jones" -> "a jones"
      [] OTHER -> name

\* Table teams.
TeamIds == {"t1", "t2"}

TeamNameOf(t) == IF t = "t1" THEN "TeamA" ELSE "TeamB"

\* The season labels, in the order Python compares the strings.
SeasonOrder == <<"2022-2023", "2023-2024">>

SeasonRank(season) == CHOOSE i \in DOMAIN SeasonOrder : SeasonOrder[i] = season

Appearances == {0, 10, 20}

StatRecords == [player_id : {AnswerPlayers[i] : i \in DOMAIN AnswerPlayers},
                season : {SeasonOrder[i] : i \in DOMAIN SeasonOrder},
                team_id : TeamIds,
                appearances : Appearances]

\* The unique key of a season record.
StatKey(r) == <<r.player_id, r.season, r.team_id>>

RECURSIVE SumAppearances(_)
SumAppearances(rs) ==
    IF rs = <<>> THEN 0 ELSE Head(rs).appearances + SumAppearances(Tail(rs))

\* An answer row.
AnswerRow(c, e, s) ==
    [player_id |-> e, normalized_name |-> Normalized(PlayerName(e)),
     score |-> s,
     is_valid_darts_score |-> FlagsOf(c, s).is_valid_darts_score,
     is_bust |-> FlagsOf(c, s).is_bust]

\* ---- populate_questions_v2.QuestionPopulator ----

\* _query_cached_stats with crud_v2.query_player_stats: the records joined
\* to their team, filtered by the team's name when the question's team is
\* found.
QueryCachedStats(q, tm, rows) ==
    LET filtered == q.team_id # "none" /\ q.team_id \in tm
    IN SelectSeq(rows,
                 LAMBDA r : /\ r.team_id \in tm
                            /\ filtered =>
                                  TeamNameOf(r.team_id) = TeamNameOf(q.team_id))

\* A dict keyed by player_id, as the sequence of its values in insertion
\* order.
HasPid(dict, pid) == \E i \in DOMAIN dict : dict[i].player_id = pid

PidIndex(dict, pid) == CHOOSE i \in DOMAIN dict : dict[i].player_id = pid

\* dict[pid] = value
Put(dict, pid, value) ==
    IF HasPid(dict, pid) THEN [dict EXCEPT ![PidIndex(dict, pid)] = value]
    ELSE Append(dict, value)

\* max(s['season'] for s in raw_stats): its rank, 0 for default=None.
RECURSIVE LatestSeasonRank(_)
LatestSeasonRank(raw) ==
    IF raw = <<>> THEN 0
    ELSE LET rest == LatestSeasonRank(Tail(raw))
             here == SeasonRank(Head(raw).season)
         IN IF here > rest THEN here ELSE rest

\* _aggregate_stats: the loop over raw_stats from a dict built so far.
RECURSIVE AggregateFrom(_, _, _, _)
AggregateFrom(dict, raw, aggregation, latest_season) ==
    IF raw = <<>> THEN dict
    ELSE LET stat == Head(raw)
             pid == stat.player_id
             next ==
               CASE aggregation = "sum" ->
                      IF HasPid(dict, pid)
                      THEN Put(dict, pid,
                               [dict[PidIndex(dict, pid)] EXCEPT
                                   !.appearances = @ + stat.appearances])
                      ELSE Put(dict, pid, stat)
                 [] aggregation = "single_season" ->
                      IF ~HasPid(dict, pid)
                         \/ SeasonRank(stat.season)
                              > SeasonRank(dict[PidIndex(dict, pid)].season)
                      THEN Put(dict, pid, stat)
                      ELSE dict
                 [] aggregation = "latest_season" ->
                      IF SeasonRank(stat.season) = latest_season
                      THEN Put(dict, pid, stat)
                      ELSE dict
         IN AggregateFrom(next, Tail(raw), aggregation, latest_season)

\* A value of questions.aggregation (a String(50) column) that
\* _aggregate_stats has no branch for.
OtherAggregations == {"average"}

\* _aggregate_stats, the calls it makes: with one of its three strategies it
\* returns; its else branch calls _aggregate_stats with the same arguments,
\* down to the interpreter's recursion limit.
RECURSIVE AggregateCall(_, _)
AggregateCall(aggregation, depth) ==
    IF aggregation \in Aggregations THEN "returned"
    ELSE IF depth >= RecursionLimit THEN "RecursionError"
    ELSE AggregateCall(aggregation, depth + 1)

\* _aggregate_stats
AggregateStats(raw, aggregation) ==
    AggregateFrom(<<>>, raw, aggregation, LatestSeasonRank(raw))

\* _transform_to_answers
RECURSIVE TransformToAnswers(_, _)
TransformToAnswers(aggregated, q) ==
    IF aggregated = <<>> THEN <<>>
    ELSE LET st == Head(aggregated)
             s == st.appearances
             rest == TransformToAnswers(Tail(aggregated), q)
         IN IF q.min_score # 0 /\ s < q.min_score THEN rest
            ELSE <<AnswerRow("QuestionPopulator", st.player_id, s)>> \o rest

\* ---- populate_answers_v2.run ----

\* The filter of q.config on a season record: the ids compared as strings,
\* table teams not consulted.
ConfigMatches(q, r) == q.team_id # "none" => r.team_id = q.team_id

\* run: the loop over the players from index i, with the keys seen so far.
RECURSIVE RunAnswersFrom(_, _, _, _)
RunAnswersFrom(i, seen_keys, q, rows) ==
    IF i > Len(AnswerPlayers) THEN <<>>
    ELSE LET p == AnswerPlayers[i]
             relevant_stats ==
                 SelectSeq(rows, LAMBDA r : r.player_id = p /\ ConfigMatches(q, r))
             total_score == SumAppearances(relevant_stats)
             answer_key == Normalized(PlayerName(p))
         IN IF relevant_stats = <<>> \/ total_score <= 0
               \/ answer_key \in seen_keys
            THEN RunAnswersFrom(i + 1, seen_keys, q, rows)
            ELSE IF q.min_score # 0 /\ total_score < q.min_score
            THEN RunAnswersFrom(i + 1, seen_keys \cup {answer_key}, q, rows)
            ELSE <<AnswerRow("populate_answers_v2", p, total_score)>>
                 \o RunAnswersFrom(i + 1, seen_keys \cup {answer_key}, q, rows)

RunAnswers(q, rows) == RunAnswersFrom(1, {}, q, rows)

\* ---- crud_v3.populate_question_answers ----

\* The rows the INSERT ... SELECT yields from player index i: one for each
\* career_stats element that passes the WHERE clause.
RECURSIVE SqlAnswersFrom(_, _, _, _)
SqlAnswersFrom(i, q, tm, rows) ==
    IF i > Len(AnswerPlayers) THEN <<>>
    ELSE LET p == AnswerPlayers[i]
             filtered == q.team_id # "none" /\ q.team_id \in tm
             selected ==
                 SelectSeq(rows,
                     LAMBDA r : /\ r.player_id = p
                                /\ filtered => TeamNameOf(r.team_id)
                                                  = TeamNameOf(q.team_id)
                                /\ r.appearances > 0)
         IN [k \in DOMAIN selected |->
                AnswerRow("crud_v3", p, selected[k].appearances)]
            \o SqlAnswersFrom(i + 1, q, tm, rows)

SqlAnswers(q, tm, rows) == SqlAnswersFrom(1, q, tm, rows)

\* uq_question_player: no two answers of a question for one player.
UniquePlayers(rows) ==
    \A i, j \in DOMAIN rows : rows[i].player_id = rows[j].player_id => i = j

\* ---- populate_questions.QuestionPopulator (scraped rows) ----

\* DataTransformer.transform_to_answers: one answer for each scraped row
\* with a non-zero value.
RECURSIVE TransformerAnswers(_)
TransformerAnswers(rows) ==
    IF rows = <<>> THEN <<>>
    ELSE IF Head(rows).appearances = 0 THEN TransformerAnswers(Tail(rows))
    ELSE <<AnswerRow("DataTransformer", Head(rows).player_id,
                     Head(rows).appearances)>>
         \o TransformerAnswers(Tail(rows))

\* ---- the recompute, step by step ----

Questions == [aggregation : Aggregations \cup OtherAggregations,
              team_id : {"none", "t1"}, min_score : {0, MinScore}]

\* The season records a store can hold: no two with one key.
StatLists ==
    {l \in UNION {[1..n -> StatRecords] : n \in 0..MaxRecords} :
        \A i, j \in DOMAIN l : StatKey(l[i]) = StatKey(l[j]) => i = j}

AnswersInit ==
    /\ populator \in Populators
    /\ question \in Questions
    /\ populator # "populate_questions_v2" => question.aggregation = "sum"
    /\ populator = "populate_questions" =>
          question.team_id = "none" /\ question.min_score = 0
    /\ teams = TeamIds
    /\ season_stats \in StatLists
    /\ table = <<>>
    /\ raw_stats = <<>>
    /\ answers = <<>>
    /\ ans_pc = "idle"
    /\ runs = 0
    /\ prior = <<>>
    /\ first_result = [done |-> FALSE, rows |-> <<>>]
    /\ player_names \in {<<"J Smith", n>> : n \in Names \ {"J Smith"}}
    \* crud_v2.get_or_create_player makes no second player of a normalized
    \* name; crud_v3.upsert_player goes by fbref_id.
    /\ populator = "populate_questions_v2" =>
          Normalized(player_names[1]) # Normalized(player_names[2])
    /\ filter_deleted = FALSE

\* The team the question filters on is deleted.  models_v2 and models_v3:
\* questions.team_id is ON DELETE SET NULL; models_v2: player_career_stats
\* rows of the team are ON DELETE CASCADE; the JSONB career_stats and the
\* JSONB config of a models_v4 question are not touched.
DeleteTeam(t) ==
    /\ ans_pc \in {"idle", "done", "no_data"}
    /\ populator # "populate_questions"
    /\ t \in teams
    /\ question.team_id = t
    /\ teams' = teams \ {t}
    /\ question' = IF populator = "populate_answers_v2" THEN question
                   ELSE [question EXCEPT !.team_id = "none"]
    /\ season_stats' = IF populator = "populate_questions_v2"
                       THEN SelectSeq(season_stats, LAMBDA r : r.team_id # t)
                       ELSE season_stats
    /\ filter_deleted' = TRUE
    /\ UNCHANGED player_names
    /\ UNCHANGED <<populator, table, raw_stats, answers, ans_pc, runs, prior,
                   first_result>>
    /\ UNCHANGED nonAnswerVars

CanStart ==
    /\ ans_pc \in {"idle", "done", "no_data", "failed", "raised"}
    /\ runs < MaxRuns

\* What the end of a recompute leaves in the history.
Ended(n, ok, rows) ==
    IF n = 1 THEN [done |-> ok, rows |-> rows] ELSE first_result

\* populate_single_question up to the delete: the query, and in v2 the
\* aggregation and the transformation; v2 returns 'no_data' when the query
\* finds nothing.
Query ==
    /\ CanStart
    /\ populator \in {"populate_questions", "populate_questions_v2"}
    /\ runs' = runs + 1
    /\ prior' = table
    /\ IF populator = "populate_questions"
       THEN /\ raw_stats' = season_stats
            /\ answers' = TransformerAnswers(season_stats)
            /\ ans_pc' = "insert"
            /\ UNCHANGED first_result
       ELSE /\ raw_stats' = QueryCachedStats(question, teams, season_stats)
            /\ IF raw_stats' = <<>>
               THEN /\ answers' = <<>>
                    /\ ans_pc' = "no_data"
                    /\ first_result' = Ended(runs + 1, TRUE, table)
               ELSE IF AggregateCall(question.aggregation, 1)
                          = "RecursionError"
               THEN /\ answers' = <<>>
                    /\ ans_pc' = "failed"
                    /\ first_result' = Ended(runs + 1, FALSE, table)
               ELSE /\ answers' = TransformToAnswers(
                                     AggregateStats(raw_stats',
                                                    question.aggregation),
                                     question)
                    /\ ans_pc' = "delete"
                    /\ UNCHANGED first_result
    /\ UNCHANGED player_names
    /\ UNCHANGED <<populator, question, teams, season_stats, table,
                   filter_deleted>>
    /\ UNCHANGED nonAnswerVars

\* delete_answers_for_question, committed (v2); run: the delete of all
\* answers, committed, with which it starts.
DeleteAnswers ==
    /\ \/ /\ populator = "populate_questions_v2"
          /\ ans_pc = "delete"
          /\ UNCHANGED <<runs, prior>>
       \/ /\ populator = "populate_answers_v2"
          /\ CanStart
          /\ runs' = runs + 1
          /\ prior' = table
    /\ table' = <<>>
    /\ ans_pc' = "insert"
    /\ UNCHANGED player_names
    /\ UNCHANGED <<populator, question, teams, season_stats, raw_stats,
                   answers, first_result, filter_deleted>>
    /\ UNCHANGED nonAnswerVars

\* insert_valid_answers / insert_answers_batch / run: the loop over the
\* players, bulk_save_objects and the commit.
InsertAnswers ==
    /\ ans_pc = "insert"
    /\ answers' = IF populator = "populate_answers_v2"
                  THEN RunAnswers(question, season_stats)
                  ELSE answers
    /\ table' = table \o answers'
    /\ ans_pc' = "done"
    /\ first_result' = Ended(runs, TRUE, table')
    /\ UNCHANGED player_names
    /\ UNCHANGED <<populator, question, teams, season_stats, raw_stats, runs,
                   prior, filter_deleted>>
    /\ UNCHANGED nonAnswerVars

\* The insert raises (the database fails): the recompute ends there.
InsertFails ==
    /\ ans_pc = "insert"
    /\ ans_pc' = "failed"
    /\ first_result' = Ended(runs, FALSE, table)
    /\ UNCHANGED player_names
    /\ UNCHANGED <<populator, question, teams, season_stats, table, raw_stats,
                   answers, runs, prior, filter_deleted>>
    /\ UNCHANGED nonAnswerVars

\* crud_v3.populate_question_answers: the delete and the INSERT ... SELECT in
\* one transaction; two rows for one player violate uq_question_player and
\* the transaction is not committed.
Populate ==
    /\ CanStart
    /\ populator = "crud_v3"
    /\ runs' = runs + 1
    /\ prior' = table
    /\ answers' = SqlAnswers(question, teams, season_stats)
    /\ IF UniquePlayers(answers')
       THEN /\ table' = answers'
            /\ ans_pc' = "done"
            /\ first_result' = Ended(runs + 1, TRUE, table')
       ELSE /\ UNCHANGED table
            /\ ans_pc' = "raised"
            /\ first_result' = Ended(runs + 1, FALSE, table)
    /\ UNCHANGED player_names
    /\ UNCHANGED <<populator, question, teams, season_stats, raw_stats,
                   filter_deleted>>
    /\ UNCHANGED nonAnswerVars

AnswersNext ==
    \/ \E t \in TeamIds : DeleteTeam(t)
    \/ Query
    \/ DeleteAnswers
    \/ InsertAnswers
    \/ InsertFails
    \/ Populate

InitAnswers ==
    AnswersInit /\ HarvestOff /\ DartsOff /\ ValidateOff /\ SyncOff

SpecAnswers == InitAnswers /\ [][AnswersNext]_vars

\* ---- what the recompute is to leave ----

\* A recompute by one of cs has ended with its answers stored.
Stored(cs) == populator \in cs /\ ans_pc = "done"

\* The records of entity e that match the question's team filter, in the
\* order of the store.
MatchingRecords(e) ==
    SelectSeq(season_stats,
              LAMBDA r : /\ r.player_id = e
                         /\ question.team_id # "none" =>
                               r.team_id = question.team_id)

RowsOfPlayer(rows, e) == SelectSeq(rows, LAMBDA a : a.player_id = e)

AnswerEntities == {AnswerPlayers[i] : i \in DOMAIN AnswerPlayers}

\* C12 (as stated): from the start of a recompute by populate_questions_v2 or
\* populate_answers_v2.run to its end, the stored answers are the whole prior
\* set, and they still are when the recompute has failed; at its end they
\* are the whole new set.  Both delete and commit before they insert.
C12_PriorOrNewAnswerSet ==
    (populator \in {"populate_questions_v2", "populate_answers_v2"}
       /\ runs > 0) =>
        /\ ans_pc \in {"delete", "insert", "failed", "no_data"} => table = prior
        /\ ans_pc = "done" => table = answers

\* C14 (as stated): after a recompute no two stored answers have one
\* normalized name, and the score of a stored answer is that of its own
\* entity alone.  The SELECT of crud_v3 yields a row for each player
\* whatever its name.
C14_OneAnswerPerName ==
    Stored({"populate_questions_v2", "populate_answers_v2", "crud_v3"}) =>
        /\ \A i, j \in DOMAIN table :
              table[i].normalized_name = table[j].normalized_name => i = j
        /\ (question.aggregation = "sum" /\ ~filter_deleted) =>
              \A i \in DOMAIN table :
                 table[i].score
                    = SumAppearances(MatchingRecords(table[i].player_id))

\* C15 (as stated): when the team of the question's filter has been deleted,
\* a recompute by populate_questions_v2 or crud_v3 ends without an error and
\* leaves no answer.  Both drop the filter when the team is not found.
C15_DeletedFilterGivesEmptySet ==
    (populator \in {"populate_questions_v2", "crud_v3"}
       /\ filter_deleted /\ runs > 0
       /\ ans_pc \in {"done", "no_data", "raised"}) =>
        /\ table = <<>>
        /\ ans_pc # "raised"

\* C16 (as stated): under sum-all-seasons each of the three implementations
\* yields at most one answer for an entity, and its score is the sum of the
\* appearances of all the entity's records that match the filter.  The
\* SELECT of crud_v3 yields one row for each season record.
C16_SumOverMatchingRecords ==
    (populator \in {"populate_questions_v2", "populate_answers_v2", "crud_v3"}
       /\ question.aggregation = "sum" /\ ~filter_deleted
       /\ ans_pc \in {"done", "raised"}) =>
        /\ UniquePlayers(answers)
        /\ \A i \in DOMAIN answers :
              answers[i].score
                 = SumAppearances(MatchingRecords(answers[i].player_id))

\* The record of entity e the single-season strategies are to use: the
\* first seen of those with e's greatest matching season label.
OwnLatestRecord(e) ==
    LET mine == MatchingRecords(e)
        best == LatestSeasonRank(mine)
        first == CHOOSE i \in DOMAIN mine :
                    /\ SeasonRank(mine[i].season) = best
                    /\ \A j \in 1..(i - 1) : SeasonRank(mine[j].season) # best
    IN mine[first]

\* C17 (as stated): under single_season and latest_season, each entity with
\* a matching record (whose score passes the threshold) has one answer, and
\* its score is that of the first seen of the entity's own records of its
\* greatest season label.  latest_season keeps the records of the greatest
\* season label of all entities, the last one seen of each entity.
C17_OwnLatestSeason ==
    (Stored({"populate_questions_v2"})
       /\ question.aggregation \in {"single_season", "latest_season"}
       /\ ~filter_deleted) =>
        \A e \in AnswerEntities :
           (MatchingRecords(e) # <<>>
              /\ OwnLatestRecord(e).appearances > 0
              /\ OwnLatestRecord(e).appearances >= question.min_score) =>
               /\ Len(RowsOfPlayer(answers, e)) = 1
               /\ RowsOfPlayer(answers, e)[1].score
                     = OwnLatestRecord(e).appearances

\* C18 (as stated): every answer a recompute has stored has a score of at
\* least 1 and, when the question has a minimum score, of at least that.
\* _transform_to_answers has no test of score > 0 and crud_v3 none of
\* min_score.
C18_ScoresAboveThreshold ==
    Stored({"populate_questions_v2", "populate_answers_v2", "crud_v3"}) =>
        \A i \in DOMAIN table :
           /\ table[i].score >= 1
           /\ question.min_score # 0 => table[i].score >= question.min_score

\* C19 (as stated): with the statistics unchanged, a second
\* populate_single_question that ends well leaves the answers the first one
\* left.  populate_questions inserts without deleting.
C19_SecondRunChangesNothing ==
    (populator \in {"populate_questions", "populate_questions_v2"}
       /\ runs = 2 /\ first_result.done /\ ~filter_deleted
       /\ ans_pc \in {"done", "no_data"}) =>
        table = first_result.rows

\* C21 (as stated): when a recompute by populate_questions_v2 or crud_v3
\* has completed, the stored answers are the newly computed ones and none
\* of an earlier recompute; they are none when no record matches any more.
\* populate_single_question returns 'no_data' before it deletes.
C21_StoredIsNewlyComputed ==
    (populator \in {"populate_questions_v2", "crud_v3"}
       /\ runs > 0 /\ ans_pc \in {"done", "no_data"}) =>
        /\ table = answers
        /\ raw_stats = <<>> /\ populator = "populate_questions_v2" =>
              table = <<>>

\* The score run is to give entity e: the sum over its matching records.
RunScore(e) == SumAppearances(MatchingRecords(e))

\* C22 (as stated): after populate_answers_v2.run, a normalized name that
\* some entity bears with a positive score at or above the question's
\* minimum has an answer, whatever lower-scoring entities of that name were
\* processed before it.  run adds the name to seen_keys before the test of
\* min_score.
C22_ThresholdBeforeDedup ==
    Stored({"populate_answers_v2"}) =>
        \A e \in AnswerEntities :
           (RunScore(e) > 0 /\ RunScore(e) >= question.min_score) =>
              \E i \in DOMAIN table :
                 table[i].normalized_name = Normalized(PlayerName(e))

\* C28: the retry driver selects an entity only if the entity's most recent
\* scrape log has status 'failed': every player an invocation of
\* retry_failed_players puts on its retry list has a latest log that is
\* 'failed', whatever older rows of the player say.
C28_OnlyLatestFailedRetried ==
    [][(retry_pc = "idle" /\ invocations' = invocations + 1) =>
          \A i \in DOMAIN player_ids_to_retry' :
             /\ LatestLog(logs, player_ids_to_retry'[i]) # 0
             /\ logs[LatestLog(logs, player_ids_to_retry'[i])].status =
                   "failed"]_vars

\* The sum of stats_stored over the processed jobs: those whose worker
\* returned a result that is not a skip.
RECURSIVE StoredByProcessed(_)
StoredByProcessed(js) ==
    IF js = <<>> THEN 0
    ELSE (IF Head(js).outcome = "ok" THEN Head(js).stats_stored ELSE 0)
         + StoredByProcessed(Tail(js))

\* C29: the counters scrape_players_parallel returns account for each input
\* id exactly once: players_processed + players_skipped + errors is
\* len(player_ids), and total_stats_stored is the sum of stats_stored over
\* the processed entities.
C29_CountersAccount ==
    pool_pc = "returned" =>
        /\ overall_stats.players_processed + overall_stats.players_skipped
              + overall_stats.errors = Len(player_ids)
        /\ overall_stats.total_stats_stored = StoredByProcessed(jobs)

\* C29, its case: a call returned after one id was skipped and another was
\* either processed with rows stored or failed.
C29_Witness ==
    /\ pool_pc = "returned"
    /\ overall_stats.players_skipped = 1
    /\ \/ overall_stats.errors = 1
       \/ overall_stats.total_stats_stored > 0

\* The page comes back but the parse fails: the rows that raise are logged and
\* dropped, a page without a stats table gives an empty list, no row is
\* upserted; update_player_last_scraped runs and the worker returns a result.
ParseFails(j) ==
    /\ j \in DOMAIN jobs
    /\ jobs[j].pc = "fetch"
    /\ jobs' = [jobs EXCEPT ![j].pc = "done", ![j].outcome = "unparsed",
                            ![j].fetched = TRUE, ![j].wrote = TRUE,
                            ![j].stats_stored = 0]
    /\ player' = [player EXCEPT ![jobs[j].entity].age = 0]
    /\ UNCHANGED <<harvester, player_ids, force_rescrape, overall_stats,
                   pool_pc>>
    /\ UNCHANGED nonPoolVars

WorkerNext ==
    \/ PoolNext
    \/ \E j \in 1..MaxIds : ParseFails(j)

\* The pool with workers whose parse can fail.
SpecWorker == InitPool /\ [][WorkerNext]_vars

\* C30 (as stated): a worker whose fetch or parse fails leaves the entity's
\* season records and its last_scraped_at as they were, so that the entity
\* is no freshness hit for the next harvest.  Only a fetch that raises does;
\* a parse that fails still ends in update_player_last_scraped.
C30_FailureLeavesEntityUnchanged ==
    [][\A j \in DOMAIN jobs :
          (/\ jobs[j].pc = "fetch"
           /\ j \in DOMAIN jobs'
           /\ jobs'[j].outcome \in {"raised", "unparsed"}) =>
              player'[jobs[j].entity] = player[jobs[j].entity]]_vars

\* C25 (as stated): _aggregate_stats terminates for every value of
\* question.aggregation, and for a value other than its three strategies it
\* gives what 'sum' gives: a recompute of such a question that found records
\* does not fail and computes the answers of the 'sum' strategy.  The else
\* branch calls _aggregate_stats again with the same arguments.
C25_UnknownAggregationIsSum ==
    (/\ populator = "populate_questions_v2"
     /\ question.aggregation \notin Aggregations
     /\ runs > 0 /\ raw_stats # <<>>) =>
        /\ ans_pc # "failed"
        /\ answers = TransformToAnswers(AggregateStats(raw_stats, "sum"),
                                        question)

(***************************************************************************)
(* Two database sessions that run crud_v3 add_player_season_stats for one  *)
(* player at the same time.  Each session reads the player's row, changes  *)
(* its own copy of the JSONB list and writes the whole list back when it   *)
(* commits.                                                                *)
(***************************************************************************)
Sessions == {"s1", "s2"}

\* The player both sessions upsert for.
SessionPlayer == "p1"

SessionKeys == {k \in Keys : k.player = SessionPlayer}

\* season_data of a call.
SeasonData(k, appearances) ==
    [season |-> k.season, team |-> k.team, competition |-> k.competition,
     appearances |-> appearances]

SessionsInit ==
    /\ crud = "crud_v3"
    /\ player_career_stats = <<>>
    /\ players = {SessionPlayer}
    /\ \E l \in {<<>>} \cup {<<SeasonData(k, a)>> :
                               k \in SessionKeys, a \in 0..MaxCount} :
          career_stats = [p \in StorePlayers |->
                             IF p = SessionPlayer THEN l ELSE <<>>]
    /\ upserts = 0
    /\ latest = [k \in Keys |-> [calls |-> 0, appearances |-> 0,
                                 previous |-> 0]]
    /\ session_args \in [Sessions -> [key : SessionKeys,
                                      appearances : 0..MaxCount]]
    /\ session_args["s1"].key # session_args["s2"].key
    /\ session_pc = [s \in Sessions |-> "start"]
    /\ session_stats = [s \in Sessions |-> <<>>]

\* The session loads the player's row and copies the list:
\* current_stats = list(player.career_stats).
SessionRead(s) ==
    /\ session_pc[s] = "start"
    /\ session_stats' = [session_stats EXCEPT
                            ![s] = career_stats[SessionPlayer]]
    /\ session_pc' = [session_pc EXCEPT ![s] = "read"]
    /\ UNCHANGED <<session_args, storeVars>>
    /\ UNCHANGED nonSessionVars

\* The session replaces or appends its record in its copy, assigns the copy
\* to player.career_stats and commits: the row gets the session's list.
SessionCommit(s) ==
    /\ session_pc[s] = "read"
    /\ career_stats' =
          [career_stats EXCEPT
              ![SessionPlayer] = AddedStats(session_stats[s],
                                            session_args[s].key,
                                            session_args[s].appearances)]
    /\ session_pc' = [session_pc EXCEPT ![s] = "done"]
    /\ UNCHANGED <<session_args, session_stats, crud, player_career_stats,
                   players, upserts, latest>>
    /\ UNCHANGED nonSessionVars

SessionsNext ==
    \/ \E s \in Sessions : SessionRead(s)
    \/ \E s \in Sessions : SessionCommit(s)

InitSessions ==
    /\ SessionsInit /\ GateOff /\ PoolOff /\ RunOff /\ LogsOff /\ RetryOff
    /\ BurstOff /\ ScoringOff

SpecSessions == InitSessions /\ [][SessionsNext]_vars

\* C23 (as stated): two season upserts for one entity with different keys
\* that run concurrently both take effect: once both have returned, the
\* entity's collection holds the record of each.  A session that read the
\* list before the other committed writes its own copy over the other's
\* record.
C23_BothUpsertsTakeEffect ==
    (\A s \in Sessions : session_pc[s] = "done") =>
        \A s \in Sessions :
           \E i \in DOMAIN career_stats[SessionPlayer] :
              career_stats[SessionPlayer][i] =
                 SeasonData(session_args[s].key, session_args[s].appearances)

(***************************************************************************)
(* The answers table of the first schema (models.py: no unique constraint  *)
(* on question and player name) under insert_answers_batch and             *)
(* update_answers of crud.py.                                              *)
(***************************************************************************)
SyncQuestions == {"q1", "q2"}
SyncNames == {"Erling Haaland", "Mohamed Salah"}
SyncValues == {100, 200}

\* An answer dict as DataTransformer hands it over.
AnswerDict(qid, name, value) ==
    [question_id |-> qid, player_name |-> name, statistic_value |-> value,
     is_valid_darts_score |-> TransformerFlags(value).is_valid_darts_score,
     is_bust |-> TransformerFlags(value).is_bust]

\* The lists of answers for a question: at most one answer per name.
NewAnswers(qid) ==
    {<<>>}
    \cup {<<AnswerDict(qid, n, v)>> : n \in SyncNames, v \in SyncValues}
    \cup {<<AnswerDict(qid, n[1], v[1]), AnswerDict(qid, n[2], v[2])>> :
             n \in {m \in SyncNames \X SyncNames : m[1] # m[2]},
             v \in SyncValues \X SyncValues}

\* existing: the rows of the question.
ExistingOf(rws, qid) == {i \in DOMAIN rws : rws[i].question_id = qid}

\* existing_map = {ans.player_name: ans for ans in existing}: of the rows
\* with one name the dict keeps the last.
ExistingMap(rws, qid) ==
    {i \in ExistingOf(rws, qid) :
        \A j \in ExistingOf(rws, qid) :
           rws[j].player_name = rws[i].player_name => j <= i}

\* new_map = {ans['player_name']: ans for ans in new_answers}: its items, in
\* the order of the first occurrence of each name, each with the last dict
\* of the name.
NewMap(nw) ==
    LET first(i) == \A j \in 1..(i - 1) :
                       nw[j].player_name # nw[i].player_name
        last(i) == CHOOSE j \in DOMAIN nw :
                      /\ nw[j].player_name = nw[i].player_name
                      /\ \A k \in DOMAIN nw :
                            nw[k].player_name = nw[i].player_name => k <= j
        firsts == SelectSeq([i \in DOMAIN nw |-> i], first)
    IN [i \in DOMAIN firsts |-> nw[last(firsts[i])]]

NamesIn(seq) == {seq[i].player_name : i \in DOMAIN seq}

NewData(nw, name) ==
    NewMap(nw)[CHOOSE i \in DOMAIN NewMap(nw) :
                  NewMap(nw)[i].player_name = name]

\* The rows update_answers changes: in existing_map, also in new_map, with
\* another statistic_value.
ToUpdate(rws, qid, nw) ==
    {i \in ExistingMap(rws, qid) :
        /\ rws[i].player_name \in NamesIn(nw)
        /\ rws[i].statistic_value
              # NewData(nw, rws[i].player_name).statistic_value}

\* The rows update_answers deletes: in existing_map and not in new_map.
ToDelete(rws, qid, nw) ==
    {i \in ExistingMap(rws, qid) : rws[i].player_name \notin NamesIn(nw)}

\* The dicts update_answers inserts: in new_map and not in existing_map.
ToInsert(rws, qid, nw) ==
    SelectSeq(NewMap(nw),
              LAMBDA a : \A i \in ExistingOf(rws, qid) :
                            rws[i].player_name # a.player_name)

RECURSIVE Kept(_, _, _)
Kept(seq, gone, i) ==
    IF i > Len(seq) THEN <<>>
    ELSE (IF i \in gone THEN <<>> ELSE <<seq[i]>>) \o Kept(seq, gone, i + 1)

\* update_answers: the table after the commit.
Synced(rws, qid, nw) ==
    LET changed ==
          [i \in DOMAIN rws |->
             IF i \in ToUpdate(rws, qid, nw)
             THEN [rws[i] EXCEPT
                     !.statistic_value =
                        NewData(nw, rws[i].player_name).statistic_value,
                     !.is_valid_darts_score =
                        NewData(nw, rws[i].player_name).is_valid_darts_score,
                     !.is_bust = NewData(nw, rws[i].player_name).is_bust]
             ELSE rws[i]]
    IN Kept(changed, ToDelete(rws, qid, nw), 1) \o ToInsert(rws, qid, nw)

\* update_answers: the counts it returns.
SyncCounts(rws, qid, nw) ==
    [inserted |-> Len(ToInsert(rws, qid, nw)),
     updated |-> Cardinality(ToUpdate(rws, qid, nw)),
     deleted |-> Cardinality(ToDelete(rws, qid, nw))]

SyncInit ==
    /\ answer_rows = <<>>
    /\ sync_call = [op |-> "none", question_id |-> "none",
                    new_answers |-> <<>>]
    /\ sync_old = <<>>
    /\ sync_result = [inserted |-> 0, updated |-> 0, deleted |-> 0]
    /\ sync_calls = 0

\* insert_answers_batch(answers): every dict becomes a new row.
insert_answers_batch(qid, nw) ==
    /\ sync_calls < MaxSyncCalls
    /\ sync_calls' = sync_calls + 1
    /\ sync_call' = [op |-> "insert_answers_batch", question_id |-> qid,
                     new_answers |-> nw]
    /\ sync_old' = answer_rows
    /\ answer_rows' = answer_rows \o nw
    /\ UNCHANGED sync_result
    /\ UNCHANGED nonSyncVars

\* update_answers(question_id, new_answers)
update_answers(qid, nw) ==
    /\ sync_calls < MaxSyncCalls
    /\ sync_calls' = sync_calls + 1
    /\ sync_call' = [op |-> "update_answers", question_id |-> qid,
                     new_answers |-> nw]
    /\ sync_old' = answer_rows
    /\ answer_rows' = Synced(answer_rows, qid, nw)
    /\ sync_result' = SyncCounts(answer_rows, qid, nw)
    /\ UNCHANGED nonSyncVars

SyncNext ==
    \/ \E qid \in SyncQuestions :
          \E nw \in NewAnswers(qid) : insert_answers_batch(qid, nw)
    \/ \E qid \in SyncQuestions :
          \E nw \in NewAnswers(qid) : update_answers(qid, nw)

InitSync ==
    SyncInit /\ HarvestOff /\ DartsOff /\ ValidateOff /\ AnswersOff

SpecSync == InitSync /\ [][SyncNext]_vars

\* The rows a table holds for a question.
RowsFor(rws, qid) == SelectSeq(rws, LAMBDA r : r.question_id = qid)

\* The rows a table holds for the other questions.
RowsNotFor(rws, qid) == SelectSeq(rws, LAMBDA r : r.question_id # qid)

\* C27 (as stated): update_answers(question_id, new_answers) synchronises
\* the stored answers with new_answers: afterwards the names stored for the
\* question are those of new_answers, every stored value and its flags are
\* those of the new answer of that name, the counts returned are
\* inserted = |new \ old|, deleted = |old \ new| and updated = the common
\* names whose value changed, and the answers of the other questions are
\* unchanged.  Of several rows with one name the call sees only the last.
C27_UpdateSynchronises ==
    sync_call.op = "update_answers" =>
        LET qid == sync_call.question_id
            nw == sync_call.new_answers
            old == RowsFor(sync_old, qid)
            stored == RowsFor(answer_rows, qid)
        IN /\ NamesIn(stored) = NamesIn(nw)
           /\ \A i \in DOMAIN stored :
                 \E j \in DOMAIN nw :
                    /\ nw[j].player_name = stored[i].player_name
                    /\ nw[j].statistic_value = stored[i].statistic_value
                    /\ nw[j].is_valid_darts_score
                          = stored[i].is_valid_darts_score
                    /\ nw[j].is_bust = stored[i].is_bust
           /\ sync_result.inserted
                 = Cardinality(NamesIn(nw) \ NamesIn(old))
           /\ sync_result.deleted
                 = Cardinality(NamesIn(old) \ NamesIn(nw))
           /\ sync_result.updated
                 = Cardinality({n \in NamesIn(nw) \cap NamesIn(old) :
                      \E i \in DOMAIN old, j \in DOMAIN nw :
                         /\ old[i].player_name = n
                         /\ nw[j].player_name = n
                         /\ old[i].statistic_value # nw[j].statistic_value})
           /\ RowsNotFor(answer_rows, qid) = RowsNotFor(sync_old, qid)

(***************************************************************************)
(* BurstParallelScraper.scrape_players_burst: the workers take a permit of *)
(* the semaphore, record the time and fetch; when every future is done the *)
(* calling thread enforces the cooldown of the batch.                      *)
(***************************************************************************)
BurstPlayers == {"e1", "e2"}
BurstWaits == {1, 2}
BurstWorkers == {1, 2}

SeqMin(times) ==
    CHOOSE x \in {times[i] : i \in DOMAIN times} :
       \A i \in DOMAIN times : x <= times[i]

SeqMax(times) ==
    CHOOSE x \in {times[i] : i \in DOMAIN times} :
       \A i \in DOMAIN times : times[i] <= x

CooldownPerBatch(times, t) ==
    IF SeqMax(times) - SeqMin(times) < t
    THEN t - (SeqMax(times) - SeqMin(times))
    ELSE 0

\* _enforce_cooldown: the sleep it asks for, request_times not being empty.
Cooldown(times, t) ==
    IF SeqMax(times) - SeqMin(times) < Len(times) * t
    THEN Len(times) * t - (SeqMax(times) - SeqMin(times))
    ELSE 0

BurstInit ==
    /\ scraper = "BurstParallelScraper"
    /\ wait_time \in BurstWaits
    /\ now = 0
    /\ max_workers \in BurstWorkers
    /\ permits = max_workers
    /\ fresh \in SUBSET BurstPlayers
    /\ request_times = <<>>
    /\ burst_jobs = [e \in BurstPlayers |-> "queued"]
    /\ burst_pc = "collecting"
    /\ burst_wake = 0
    /\ burst_hist = BurstHistInit
    /\ last_request_time = 0
    /\ lock = NoWorker
    /\ pending = 0
    /\ wpc = <<>>
    /\ current_time = <<>>
    /\ sleep_time = <<>>
    /\ gated = <<>>
    /\ hist = HistInit

\* The clock advances; any thread may be delayed at any point.
BurstTick ==
    /\ now < BurstHorizon
    /\ now' = now + 1
    /\ UNCHANGED <<scraper, wait_time, permits, burstVars>>
    /\ UNCHANGED nonBurstVars

BurstRunning ==
    {e \in BurstPlayers : burst_jobs[e] \in {"sem", "stamped", "fetching"}}

\* A free pool thread takes a future: a player scraped within 30 days is
\* skipped, the others go on to the semaphore.
BurstStart(e) ==
    /\ burst_pc = "collecting"
    /\ burst_jobs[e] = "queued"
    /\ Cardinality(BurstRunning) < max_workers
    /\ burst_jobs' = [burst_jobs EXCEPT
                        ![e] = IF e \in fresh THEN "done" ELSE "sem"]
    /\ UNCHANGED <<scraper, wait_time, now, permits, max_workers, fresh,
                   request_times, burst_pc, burst_wake, burst_hist>>
    /\ UNCHANGED nonBurstVars

\* with self.semaphore: request_time = time.time();
\* self.request_times.append(request_time)
BurstStamp(e) ==
    /\ burst_jobs[e] = "sem"
    /\ permits > 0
    /\ permits' = permits - 1
    /\ request_times' = Append(request_times, now)
    /\ burst_hist' = [burst_hist EXCEPT
                        !.n = @ + 1,
                        !.first_request = IF burst_hist.n = 0 THEN now
                                          ELSE Min(@, now)]
    /\ burst_jobs' = [burst_jobs EXCEPT ![e] = "stamped"]
    /\ UNCHANGED <<scraper, wait_time, now, max_workers, fresh, burst_pc,
                   burst_wake>>
    /\ UNCHANGED nonBurstVars

\* requests.get(player_url, ...): the request is issued.
BurstFetch(e) ==
    /\ burst_jobs[e] = "stamped"
    /\ burst_hist' = [burst_hist EXCEPT
                        !.started = @ + 1,
                        !.first_start = IF burst_hist.started = 0 THEN now
                                        ELSE @]
    /\ burst_jobs' = [burst_jobs EXCEPT ![e] = "fetching"]
    /\ UNCHANGED <<scraper, wait_time, now, permits, max_workers, fresh,
                   request_times, burst_pc, burst_wake>>
    /\ UNCHANGED nonBurstVars

\* The fetch ends, with a result or an exception; the with block releases
\* the permit.
BurstFetchEnd(e) ==
    /\ burst_jobs[e] = "fetching"
    /\ permits' = permits + 1
    /\ burst_jobs' = [burst_jobs EXCEPT ![e] = "done"]
    /\ UNCHANGED <<scraper, wait_time, now, max_workers, fresh,
                   request_times, burst_pc, burst_wake, burst_hist>>
    /\ UNCHANGED nonBurstVars

\* Every future is done: _enforce_cooldown up to its sleep.  Without a
\* request, or with the batch long enough, it returns at once, and so does
\* scrape_players_burst.
EnforceCooldown ==
    /\ burst_pc = "collecting"
    /\ \A e \in BurstPlayers : burst_jobs[e] = "done"
    /\ IF request_times # <<>> /\ Cooldown(request_times, wait_time) > 0
       THEN /\ burst_pc' = "cooldown"
            /\ burst_wake' = now + Cooldown(request_times, wait_time)
            /\ burst_hist' = [burst_hist EXCEPT
                                !.cooldown =
                                   Cooldown(request_times, wait_time)]
            /\ UNCHANGED request_times
       ELSE /\ burst_pc' = "returned"
            /\ request_times' = <<>>
            /\ burst_hist' = [burst_hist EXCEPT !.returned_at = now]
            /\ UNCHANGED burst_wake
    /\ UNCHANGED <<scraper, wait_time, now, permits, max_workers, fresh,
                   burst_jobs>>
    /\ UNCHANGED nonBurstVars

\* time.sleep(cooldown) returns no earlier than asked; request_times is
\* cleared and scrape_players_burst returns.
CooldownEnd ==
    /\ burst_pc = "cooldown"
    /\ now >= burst_wake
    /\ burst_pc' = "returned"
    /\ request_times' = <<>>
    /\ burst_hist' = [burst_hist EXCEPT !.returned_at = now]
    /\ UNCHANGED <<scraper, wait_time, now, permits, max_workers, fresh,
                   burst_jobs, burst_wake>>
    /\ UNCHANGED nonBurstVars

BurstNext ==
    \/ BurstTick
    \/ \E e \in BurstPlayers : BurstStart(e)
    \/ \E e \in BurstPlayers : BurstStamp(e)
    \/ \E e \in BurstPlayers : BurstFetch(e)
    \/ \E e \in BurstPlayers : BurstFetchEnd(e)
    \/ EnforceCooldown
    \/ CooldownEnd

InitBurst ==
    /\ BurstInit /\ PoolOff /\ RunOff /\ LogsOff /\ RetryOff /\ StoreOff
    /\ SessionsOff /\ ScoringOff

SpecBurst == InitBurst /\ [][BurstNext]_vars

=========================================================================
